---- MODULE Spec2Model ----
(***************************************************************************)
(* Model of the xCodeProblemService execution-and-scoring pipeline:        *)
(*   - ProblemService.RunUserCodeProblem / processSubmission               *)
(*   - Repository.PushSubmissionData (count, insert, ProblemDone, board)   *)
(*   - Repository.SyncLeaderboardToRedis (full resync)                     *)
(*   - ProblemService.FullValidationByProblemID and the problem mutators   *)
(*   - Repository.CreateProblem / DeleteProblem, AddTestCases / toTestCases *)
(*   - the template splicing of RunUserCodeProblem                         *)
(*   - the challenge RPCs (create, join, start, end, details)              *)
(*   - the Redis cache: cached reads and the handlers' key deletions       *)
(*   - GetMonthlyContributionHistory, ForceChangeUserEntityInSubmission    *)
(*   - the durable-store leaderboard fallbacks                             *)
(*   - GetProblem / GetProblemByIDSlug over the shared cache key           *)
(*   - failing or cancelled Mongo calls inside PushSubmissionData          *)
(* Every durable-store, message-bus and leaderboard call is one step, so   *)
(* concurrent RPCs interleave exactly at their I/O points.                 *)
(***************************************************************************)
EXTENDS Integers, Sequences, FiniteSets, TLC

\* ------------------------------------------------------------------ bounds
MaxReq == 2            \* concurrent submit RPCs in the scoring specification
MaxRun == 2            \* RunUserCodeProblem RPCs in the dispatch specification
MaxLive == 2           \* submit RPCs running alongside the full resync
MaxVal == 2            \* FullValidationByProblemID calls, one after the other
MaxMut == 2            \* concurrent problem-mutation RPCs
MaxTmpl == 4           \* tokens of a stored template
MaxCount == 2          \* submissions of the user on one day
MaxChal == 3           \* challenge RPCs
MaxTime == 2           \* ticks of the wall clock while challenges run

\* ------------------------------------------------------- program constants
MinRun == 3            \* BasicValidationByProblemID: run cases required
MinSubmit == 5         \* BasicValidationByProblemID: submit cases required
RunCap == 3            \* AddTestCases: run test case limit
SubmitCap == 100       \* AddTestCases: submit test case limit

\* ----------------------------------------------------------------- domains
NIL == "nil"                                  \* an absent optional field / nil pointer
ReqIds == 1 .. MaxReq                         \* client request slots (scoring)
RunIds == 1 .. MaxRun                         \* client request slots (dispatch)
ValReq == 0                                   \* the slot FullValidation uses for its inner run
LiveIds == 1 .. MaxLive                       \* client request slots (resync)
AllReqIds == {ValReq} \cup ReqIds \cup RunIds \cup LiveIds
MutIds == 1 .. MaxMut                         \* mutation request slots
UserIds == {"u1", "u2"}
DocIds == {"p1", "p2", "p3", "p4"}            \* _id values of the problems collection
Languages == {"go", "python"}
\* what the executor may answer on problems.execute.request
ReplyKinds == {"transportErr", "badJson", "noOutput", "compileErr", "pass", "fail", "noField", "garbage"}

\* the replies that reach processSubmission on the synchronous path
ScoreReplies == {"pass", "fail"}
\* the replies RunUserCodeProblem itself tells apart
DispatchReplies == ReplyKinds \ {"noField"}

\* submit-case requests of known users (scoring specification)
SubmitInputs ==
    { [userId |-> "u1", problemId |-> "p1", language |-> "go", isRun |-> FALSE, country |-> "in"],
      [userId |-> "u1", problemId |-> "p2", language |-> "go", isRun |-> FALSE, country |-> "US"],
      [userId |-> "u2", problemId |-> "p2", language |-> "go", isRun |-> FALSE, country |-> "US"] }

\* what a client may send to RunUserCodeProblem (dispatch specification)
RunInputs ==
    { [userId |-> "u1", problemId |-> "p1", language |-> "go",     isRun |-> FALSE, country |-> "in"],
      [userId |-> "u1", problemId |-> "p1", language |-> "go",     isRun |-> TRUE,  country |-> "in"],
      [userId |-> "",   problemId |-> "p1", language |-> "go",     isRun |-> FALSE, country |-> NIL],
      [userId |-> "u1", problemId |-> "p1", language |-> "python", isRun |-> FALSE, country |-> "in"],
      [userId |-> "u1", problemId |-> "p9", language |-> "go",     isRun |-> FALSE, country |-> "in"],
      [userId |-> "u1", problemId |-> "bad", language |-> "go",    isRun |-> FALSE, country |-> "in"],
      [userId |-> "u2", problemId |-> "p1", language |-> "go",     isRun |-> FALSE, country |-> NIL] }

\* what FullValidationByProblemID passes to RunUserCodeProblem for language l
ValidationRun(pid, l) ==
    [userId |-> "", problemId |-> pid, language |-> l, isRun |-> FALSE, country |-> NIL]

\* text is a sequence of tokens: the two markers, the double quote, the backslash
\* and other characters
TESTCASE_PLACEHOLDER == "{TESTCASE_PLACEHOLDER}"
FUNCTION_PLACEHOLDER == "{FUNCTION_PLACEHOLDER}"
Quote == "\""
Backslash == "\\"

\* templates an author may store for a language
Templates ==
    UNION {[1 .. n -> {"x", TESTCASE_PLACEHOLDER, FUNCTION_PLACEHOLDER}] : n \in 0 .. MaxTmpl}
\* json.Marshal(testCases): a quoted string, a number, a string holding a marker
TestCaseJSONs == {<<Quote, "a", Quote>>, <<"1">>, <<Quote, FUNCTION_PLACEHOLDER, Quote>>}
\* req.UserCode: plain code, code that itself holds the markers
UserCodes == {<<"c">>, <<TESTCASE_PLACEHOLDER, FUNCTION_PLACEHOLDER>>}
\* req.Language
SpliceLanguages == {"go", "cpp", "python", "py", "javascript", "js"}

ChalIds == 1 .. MaxChal
ChallengeIds == {"c1", "c2"}

\* a challenge RPC's request; the fields an RPC does not carry keep their zero value
ChalRequest(op, id, userId) ==
    [op |-> op, id |-> id, userId |-> userId, password |-> NIL,
     title |-> "", isPrivate |-> FALSE, timeLimit |-> 0]

\* the challenge requests clients may send
ChalInputs ==
    { ChalRequest(op, "c1", u) : op \in {"StartChallenge", "EndChallenge"}, u \in UserIds }
    \cup { [ChalRequest("JoinChallenge", c, "u2") EXCEPT !.password = pw] :
               c \in ChallengeIds, pw \in {NIL, "pw"} }
    \cup { ChalRequest("JoinChallenge", "c1", "u1") }
    \cup { [ChalRequest("CreateChallenge", "", "u2") EXCEPT
               !.title = t, !.isPrivate = TRUE, !.timeLimit = 1] : t \in {"ct1", "ct2"} }

\* the cache keys the service reads and writes, as their ":"-separated segments
CacheKeys ==
    { <<"challenge_details", c>> : c \in ChallengeIds }
    \cup { <<"problems_list", "1", "10">>, <<"problems_list", "2", "1">> }
    \cup { <<"submissions", "p1", "u1">>, <<"submissions", "", "u1">>, <<"stats", "u1">>,
           <<"heatmap", "u1", "2024", "2">>, <<"heatmap", "u1", "0", "0">> }
    \cup { <<"problem", "p1">> }

\* time.Now() as year and month
Today == [y |-> 2024, m |-> 2]

\* the cached reads of user u1: the RPC, its problemId filter, its year and month
ReadInputs ==
    { [op |-> "GetSubmissionsByOptionalProblemID", userId |-> "u1", problemId |-> pid,
       year |-> 0, month |-> 0] : pid \in {"p1", ""} }
    \cup { [op |-> "GetProblemsDoneStatistics", userId |-> "u1", problemId |-> "",
            year |-> 0, month |-> 0] }
    \cup { [op |-> "GetMonthlyActivityHeatmap", userId |-> "u1", problemId |-> "",
            year |-> ym.y, month |-> ym.m] : ym \in {Today, [y |-> 0, m |-> 0]} }

\* ListProblems requests: page and pageSize as sent
ListInputs == { [page |-> 0, pageSize |-> 0], [page |-> 2, pageSize |-> 1] }

\* the problems collection in its natural order
DocSeq == <<"p1", "p2", "p3", "p4">>

\* reads served by the durable-store fallbacks
FallbackInputs ==
    { [op |-> "GetUserRankMongo", userId |-> u, entity |-> ""] : u \in UserIds }
    \cup { [op |-> "GetTopKEntityMongo", userId |-> "", entity |-> e] : e \in {"IN", "US"} }

\* ForceChangeUserEntityInSubmission requests
ForceInputs == [userId : UserIds, entity : {"in", "US"}]

\* calendar dates on which the user may have submitted
ActivityDates ==
    { [y |-> 2024, m |-> 2, d |-> 29], [y |-> 2024, m |-> 2, d |-> 1],
      [y |-> 2024, m |-> 3, d |-> 1] }

\* GetMonthlyContributionHistory(userID, month, year) calls, with the wall clock
\* at the call and the user's submissions per day
HeatmapInputs ==
    [userID : {"u1", ""}, month : 0 .. 12, year : {0, 2023, 2024, 2100},
     now : {[y |-> 2024, m |-> 2], [y |-> 2025, m |-> 12]},
     activity : [ActivityDates -> 0 .. MaxCount]]

\* the mutation requests clients may send for problem p1
MutInputs ==
    { [op |-> "AddTestCases", problemId |-> "p1", run |-> <<"r1">>, submit |-> <<>>],
      [op |-> "AddTestCases", problemId |-> "p1", run |-> <<>>, submit |-> <<"s1">>],
      [op |-> "AddTestCases", problemId |-> "p1", run |-> <<"r4">>, submit |-> <<>>],
      [op |-> "AddTestCases", problemId |-> "p1", run |-> <<"">>, submit |-> <<>>],
      [op |-> "AddTestCases", problemId |-> "p1", run |-> <<>>, submit |-> <<"s2", "s2">>],
      [op |-> "DeleteTestCase", problemId |-> "p1", isRun |-> TRUE, id |-> "r1"],
      [op |-> "DeleteTestCase", problemId |-> "p1", isRun |-> FALSE, id |-> "s1"],
      [op |-> "AddLanguageSupport", problemId |-> "p1", language |-> "python", placeholder |-> TRUE],
      [op |-> "UpdateLanguageSupport", problemId |-> "p1", language |-> "go", placeholder |-> FALSE],
      [op |-> "UpdateLanguageSupport", problemId |-> "p1", language |-> "python", placeholder |-> TRUE],
      [op |-> "RemoveLanguageSupport", problemId |-> "p1", language |-> "python"],
      [op |-> "UpdateProblem", problemId |-> "p1", field |-> "title", value |-> "t3"],
      [op |-> "UpdateProblem", problemId |-> "p1", field |-> "title", value |-> "t2"],
      [op |-> "UpdateProblem", problemId |-> "p1", field |-> "description", value |-> "d"],
      [op |-> "UpdateProblem", problemId |-> "p1", field |-> "tags", value |-> "g"],
      [op |-> "UpdateProblem", problemId |-> "p1", field |-> "difficulty", value |-> "H"],
      [op |-> "UpdateProblem", problemId |-> "p1", field |-> "none", value |-> ""] }

\* the test-case requests among them
TestCaseInputs == {in \in MutInputs : in.op \in {"AddTestCases", "DeleteTestCase"}}

\* the renames among them
RenameInputs == {in \in MutInputs : in.op = "UpdateProblem" /\ in.field = "title"}

\* the CreateProblem requests clients may send
CreateInputs ==
    { [op |-> "CreateProblem", problemId |-> "", title |-> "t1", difficulty |-> "E"],
      [op |-> "CreateProblem", problemId |-> "", title |-> "t3", difficulty |-> "E"] }

\* the mutation that may arrive while a full validation of p1 is running
ValidationMutInputs ==
    {in \in MutInputs : in.op \in {"UpdateLanguageSupport", "DeleteTestCase"}}

VARIABLES
    problems,       \* problems collection: DocIds -> problem document
    submissions,    \* submissions collection (set of documents)
    problemsDone,   \* submissionsfirstsuccess collection (ProblemDone documents)
    lb,             \* RedisBoard leaderboard index: UserIds -> row
    req,            \* RunUserCodeProblem invocations: AllReqIds -> locals
    sync,           \* SyncLeaderboardToRedis invocation
    val,            \* FullValidationByProblemID invocation
    mut,            \* problem-mutation invocation (repository mutators)
    clock,          \* time.Now() and primitive.NewObjectID(), as a logical clock
    splice,         \* the template being spliced into the compiler request's code
    query,          \* a read or administrative RPC: its request and its response
    challenges,     \* Mongo collection "challenges", by _id
    cache,          \* the Redis cache: key -> entry
    chal            \* the challenge RPCs in progress

vars == <<problems, submissions, problemsDone, lb, req, sync, val, mut, clock, splice, query,
          challenges, cache, chal>>

\* ---------------------------------------------------------- pure functions
\* strings.ToUpper on the country codes of the model
ToUpper(c) == IF c = "in" THEN "IN" ELSE c

\* Repository.CalculateScore
CalculateScore(difficulty) ==
    IF difficulty = "MEDIUM" THEN 4
    ELSE IF difficulty = "HARD" THEN 6
    ELSE 2

RECURSIVE SumScores(_)
\* $sum of "score" over a set of documents
SumScores(S) ==
    IF S = {} THEN 0
    ELSE LET d == CHOOSE x \in S : TRUE IN d.score + SumScores(S \ {d})

\* model.Problem{} : the zero value GetProblem returns for a missing document
EmptyProblem ==
    [exists |-> FALSE, deleted |-> FALSE, title |-> "", difficulty |-> "",
     run |-> <<>>, submit |-> <<>>, languages |-> <<>>, validateCode |-> <<>>,
     validated |-> FALSE, validatedAt |-> 0]

\* primitive.ObjectIDFromHex succeeds
ValidHex(id) == id # "bad"

\* FindOne({_id: id, deleted_at: nil})
FindProblem(id) ==
    IF id \in DocIds /\ problems[id].exists /\ ~problems[id].deleted
    THEN problems[id] ELSE EmptyProblem

\* CountDocuments({userId, problemId, status: "SUCCESS"}) on submissions
CountSuccess(u, p) ==
    Cardinality({s \in submissions : s.userId = u /\ s.problemId = p /\ s.status = "SUCCESS"})

\* ------------------------------------------------------- leaderboard index
NoRow == [present |-> FALSE, entity |-> "", score |-> 0]

\* redisboard.Leaderboard.GetUserEntity
GetUserEntity(u) == IF lb[u].present THEN lb[u].entity ELSE ""

\* redisboard.Leaderboard.AddUser : upsert replacing the user's row
AddUser(board, u, e, s) == [board EXCEPT ![u] = [present |-> TRUE, entity |-> e, score |-> s]]

\* redisboard.Leaderboard.IncrementScore : adds delta, creating the row if absent
IncrementScore(board, u, e, d) ==
    IF board[u].present
    THEN [board EXCEPT ![u].score = @ + d]
    ELSE [board EXCEPT ![u] = [present |-> TRUE, entity |-> e, score |-> d]]

\* redisboard.Leaderboard.UpdateEntityByUserID : moves the user's row to the
\* entity given
UpdateEntityByUserID(board, u, e) ==
    IF board[u].present THEN [board EXCEPT ![u].entity = e] ELSE board

\* ------------------------------------------------------------ initial state
IdleReq ==
    [pc |-> "idle", userId |-> "", problemId |-> "", language |-> "", isRun |-> FALSE,
     country |-> NIL, difficulty |-> "", reply |-> "", status |-> "", async |-> FALSE,
     successCount |-> 0, submittedAt |-> 0, score |-> 0, isFirst |-> FALSE,
     existingEntity |-> "", natsCalls |-> 0, hadSuccess |-> FALSE,
     resp |-> [returned |-> FALSE, success |-> FALSE, errorType |-> "", fault |-> FALSE, message |-> ""]]

IdleSync == [pc |-> "idle", rows |-> {}]
NoValResp == [success |-> FALSE, errorType |-> "", language |-> "", fault |-> FALSE]
IdleVal ==
    [pc |-> "idle", problemId |-> "", languages |-> <<>>, validateCode |-> <<>>, i |-> 0,
     calls |-> 0, resp |-> NoValResp, prev |-> NoValResp, interfered |-> FALSE]
IdleSplice ==
    [pc |-> "idle", template |-> <<>>, testCasesJSON |-> <<>>, userCode |-> <<>>,
     language |-> "", tmpl |-> <<>>]
EmptyChallenge ==
    [exists |-> FALSE, title |-> "", creatorId |-> "", isPrivate |-> FALSE, password |-> "",
     timeLimit |-> 0, isActive |-> FALSE, participantIds |-> <<>>, status |-> "",
     startTime |-> 0, endTime |-> 0]
\* redis.Nil: no value under the key
NoEntry == [hit |-> FALSE]
IdleChal == [pc |-> "idle", in |-> NIL, id |-> "", ok |-> FALSE, message |-> ""]
IdleQuery == [pc |-> "idle", op |-> "", in |-> <<>>, out |-> <<>>, err |-> FALSE]
IdleMut == [pc |-> "idle", in |-> [op |-> ""], newRun |-> <<>>, newSubmit |-> <<>>,
            ok |-> FALSE, flipped |-> FALSE]

\* a stored problem with three run cases and complete scaffolding for langs
SeedProblem(t, d, langs, v) ==
    [exists |-> TRUE, deleted |-> FALSE, title |-> t, difficulty |-> d,
     run |-> <<"r1", "r2", "r3">>, submit |-> <<>>, languages |-> langs,
     validateCode |-> [l \in {langs[i] : i \in DOMAIN langs} |-> [placeholder |-> TRUE]],
     validated |-> v, validatedAt |-> IF v THEN 1 ELSE 0]

InitStores ==
    /\ submissions = {}
    /\ problemsDone = {}
    /\ lb = [u \in UserIds |-> NoRow]
    /\ req = [r \in AllReqIds |-> IdleReq]
    /\ sync = IdleSync
    /\ val = IdleVal
    /\ mut = [m \in MutIds |-> IdleMut]
    /\ clock = 1
    /\ splice = IdleSplice
    /\ query = IdleQuery
    /\ challenges = [c \in ChallengeIds |-> EmptyChallenge]
    /\ cache = [k \in CacheKeys |-> NoEntry]
    /\ chal = [o \in ChalIds |-> IdleChal]

Init ==
    /\ InitStores
    /\ problems = [p \in DocIds |->
                      CASE p = "p1" -> SeedProblem("t1", "E", <<"go">>, TRUE)
                        [] p = "p2" -> SeedProblem("t2", "M", <<"go">>, TRUE)
                        [] OTHER -> EmptyProblem]

\* a freshly authored, not yet validated problem p1 supporting go and python
InitValidation ==
    /\ InitStores
    /\ problems = [p \in DocIds |->
                      CASE p = "p1" -> SeedProblem("t1", "E", <<"go", "python">>, FALSE)
                        [] p = "p2" -> SeedProblem("t2", "M", <<"go">>, FALSE)
                        [] OTHER -> EmptyProblem]

\* problem p1 while its author is still adding test cases: two run cases so far
InitTestCases ==
    /\ InitStores
    /\ problems = [p \in DocIds |->
                      CASE p = "p1" -> [SeedProblem("t1", "E", <<"go">>, FALSE)
                                           EXCEPT !.run = <<"r1", "r2">>]
                        [] p = "p2" -> SeedProblem("t2", "M", <<"go">>, FALSE)
                        [] OTHER -> EmptyProblem]

\* RunUserCodeProblem has fetched the template and marshalled the test cases
InitSplice ==
    /\ submissions = {}
    /\ problemsDone = {}
    /\ lb = [u \in UserIds |-> NoRow]
    /\ req = [r \in AllReqIds |-> IdleReq]
    /\ sync = IdleSync
    /\ val = IdleVal
    /\ mut = [m \in MutIds |-> IdleMut]
    /\ clock = 1
    /\ problems = [p \in DocIds |-> EmptyProblem]
    /\ query = IdleQuery
    /\ challenges = [c \in ChallengeIds |-> EmptyChallenge]
    /\ cache = [k \in CacheKeys |-> NoEntry]
    /\ chal = [o \in ChalIds |-> IdleChal]
    /\ splice \in [pc : {"cases"}, template : Templates, testCasesJSON : TestCaseJSONs,
                    userCode : UserCodes, language : SpliceLanguages, tmpl : {<<>>}]

\* a GetMonthlyContributionHistory call has arrived
InitHeatmap ==
    /\ submissions = {}
    /\ problemsDone = {}
    /\ lb = [u \in UserIds |-> NoRow]
    /\ req = [r \in AllReqIds |-> IdleReq]
    /\ sync = IdleSync
    /\ val = IdleVal
    /\ mut = [m \in MutIds |-> IdleMut]
    /\ clock = 1
    /\ problems = [p \in DocIds |-> EmptyProblem]
    /\ splice = IdleSplice
    /\ challenges = [c \in ChallengeIds |-> EmptyChallenge]
    /\ cache = [k \in CacheKeys |-> NoEntry]
    /\ chal = [o \in ChalIds |-> IdleChal]
    /\ query \in [pc : {"call"}, op : {"GetMonthlyContributionHistory"}, in : HeatmapInputs,
                   out : {<<>>}, err : {FALSE}]

\* ------------------------------------------------ RunUserCodeProblem (RPC)
\* a pb.RunProblemResponse (fault = the handler returned a Go error instead)
Response(success, errorType, fault, message) ==
    [returned |-> TRUE, success |-> success, errorType |-> errorType, fault |-> fault, message |-> message]

\* (variant) the early return taken only when both conditions hold
SkipSubmissionBoth(isRun, userId) == isRun /\ userId = ""

\* processSubmission's early return: nothing is written for run-only or anonymous runs
SkipSubmission(isRun, userId) == isRun \/ userId = ""

\* (variant) the success count is ignored
IsFirstSuccessAnyCount(successCount, status) == status = "SUCCESS"

\* PushSubmissionData: the submission is the first success of (user, problem)
IsFirstSuccess(successCount, status) == successCount = 0 /\ status = "SUCCESS"

\* (variant) a transport error is handled like a failed run
AfterReplyTransportAsFailed(k) ==
    IF k = "compileErr"
    THEN [pc |-> "process", status |-> "FAILED", async |-> TRUE,
          resp |-> Response(FALSE, "COMPILATION_ERROR", FALSE, "compileErr")]
    ELSE [pc |-> "process", status |-> IF k = "pass" THEN "SUCCESS" ELSE "FAILED",
          async |-> FALSE, resp |-> IdleReq.resp]

\* (variant) a transport error sends the request again
AfterReplyRetry(k) ==
    IF k = "transportErr"
    THEN [pc |-> "nats", status |-> "", async |-> FALSE, resp |-> IdleReq.resp]
    ELSE [pc |-> "process", status |-> IF k = "pass" THEN "SUCCESS" ELSE "FAILED",
          async |-> FALSE, resp |-> IdleReq.resp]

\* RunUserCodeProblem: what follows the executor's reply k
\*   pc     : where the invocation continues
\*   status : the status handed to processSubmission
\*   async  : processSubmission runs on its own goroutine, the RPC has returned
AfterReply(k) ==
    CASE k = "transportErr" ->
            [pc |-> "done", status |-> "", async |-> FALSE,
             resp |-> Response(FALSE, "COMPILATION_ERROR", FALSE, "Failed to execute code")]
      [] k = "badJson" ->
            [pc |-> "done", status |-> "", async |-> FALSE,
             resp |-> Response(FALSE, "", TRUE, "")]
      [] k = "noOutput" ->
            [pc |-> "done", status |-> "", async |-> FALSE,
             resp |-> Response(FALSE, "EXECUTION_ERROR", FALSE, "Invalid execution result format")]
      [] k = "compileErr" ->
            [pc |-> "process", status |-> "FAILED", async |-> TRUE,
             resp |-> Response(FALSE, "COMPILATION_ERROR", FALSE, "compileErr")]
      [] k = "pass" ->
            [pc |-> "process", status |-> "SUCCESS", async |-> FALSE, resp |-> IdleReq.resp]
      [] OTHER ->
            [pc |-> "process", status |-> "FAILED", async |-> FALSE, resp |-> IdleReq.resp]

\* (variant) the scaffolding of the language is not looked up
RunBeginNoLookup(r, in) ==
    [IdleReq EXCEPT !.pc = "nats", !.userId = in.userId, !.problemId = in.problemId,
                    !.language = in.language, !.isRun = in.isRun, !.country = in.country,
                    !.difficulty = FindProblem(in.problemId).difficulty]

\* RunUserCodeProblem(in) up to the executor call:
\* Repository.GetProblem, then the problem.ValidateCode[req.Language] lookup
RunBegin(r, in) ==
    LET problem == FindProblem(in.problemId)
        rq == [IdleReq EXCEPT !.userId = in.userId, !.problemId = in.problemId,
                              !.language = in.language, !.isRun = in.isRun,
                              !.country = in.country,
                              !.hadSuccess = CountSuccess(in.userId, in.problemId) > 0]
    IN IF ~ValidHex(in.problemId)
       THEN [rq EXCEPT !.pc = "done", !.resp = Response(FALSE, "", TRUE, "")]
       ELSE IF in.language \notin DOMAIN problem.validateCode
       THEN [rq EXCEPT !.pc = "done",
                       !.resp = Response(FALSE, "INVALID_LANGUAGE", FALSE, "Language not supported")]
       ELSE [rq EXCEPT !.pc = "nats", !.difficulty = problem.difficulty]

\* a client's RunUserCodeProblem RPC arrives
RunStart(r, in) ==
    /\ req[r].pc = "idle"
    /\ r = 1 \/ req[r - 1].pc # "idle"
    /\ req' = [req EXCEPT ![r] = RunBegin(r, in)]
    /\ UNCHANGED <<challenges, cache, chal, query, splice, problems, submissions, problemsDone, lb, sync, val, mut, clock>>

\* NatsClient.Request("problems.execute.request", ...) answered by reply k,
\* and the reply's classification
RunNatsRequest(r, k) ==
    /\ req[r].pc = "nats"
    /\ LET a == AfterReply(k) IN
       req' = [req EXCEPT ![r] =
                 [@ EXCEPT !.natsCalls = @ + 1, !.reply = k, !.pc = a.pc,
                           !.status = a.status, !.async = a.async, !.resp = a.resp]]
    /\ UNCHANGED <<challenges, cache, chal, query, splice, problems, submissions, problemsDone, lb, sync, val, mut, clock>>

\* the response RunUserCodeProblem returns after processSubmission
FinalResp(rq) ==
    IF rq.async THEN rq.resp ELSE Response(TRUE, "", FALSE, rq.reply)

\* the invocation is over: its response is out and its locals are gone
Finished(rq) ==
    [rq EXCEPT !.pc = "done", !.resp = FinalResp(rq), !.successCount = 0,
               !.submittedAt = 0, !.existingEntity = "", !.difficulty = ""]

\* processSubmission up to PushSubmissionData's CountDocuments
RunProcess(r) ==
    /\ req[r].pc = "process"
    /\ IF SkipSubmission(req[r].isRun, req[r].userId)
       THEN /\ req' = [req EXCEPT ![r] = Finished(req[r])]
            /\ clock' = clock
       ELSE IF req[r].country = NIL
       THEN \* *req.Country dereferences a nil pointer: the goroutine panics
            /\ req' = [req EXCEPT ![r].pc = "panic"]
            /\ clock' = clock
       ELSE /\ req' = [req EXCEPT ![r] =
                         [@ EXCEPT !.pc = "insertSub", !.submittedAt = clock,
                                   !.successCount = CountSuccess(req[r].userId, req[r].problemId)]]
            /\ clock' = clock + 1
    /\ UNCHANGED <<challenges, cache, chal, query, splice, problems, submissions, problemsDone, lb, sync, val, mut>>

\* PushSubmissionData: score/isFirst decision and submissionsCollection.InsertOne
RunInsertSub(r) ==
    /\ req[r].pc = "insertSub"
    /\ LET first == IsFirstSuccess(req[r].successCount, req[r].status)
           score == IF first THEN CalculateScore(req[r].difficulty) ELSE 0
       IN /\ submissions' = submissions \cup
                {[id |-> r, userId |-> req[r].userId, problemId |-> req[r].problemId,
                  status |-> req[r].status, score |-> score, isFirst |-> first,
                  country |-> ToUpper(req[r].country), submittedAt |-> req[r].submittedAt,
                  difficulty |-> req[r].difficulty]}
          /\ req' = [req EXCEPT ![r] =
                       [@ EXCEPT !.score = score, !.isFirst = first,
                                 !.pc = IF req[r].status = "SUCCESS" /\ first
                                        THEN "insertDone" ELSE "flush"]]
    /\ UNCHANGED <<challenges, cache, chal, query, splice, problems, problemsDone, lb, sync, val, mut, clock>>

\* PushSubmissionData: submissionFirstSuccessCollection.InsertOne(ProblemDone)
RunInsertDone(r) ==
    /\ req[r].pc = "insertDone"
    /\ problemsDone' = problemsDone \cup
          {[submissionId |-> r, userId |-> req[r].userId, problemId |-> req[r].problemId,
            score |-> req[r].score, country |-> ToUpper(req[r].country),
            submittedAt |-> req[r].submittedAt, difficulty |-> req[r].difficulty]}
    /\ req' = [req EXCEPT ![r].pc = "getEntity"]
    /\ UNCHANGED <<challenges, cache, chal, query, splice, problems, submissions, lb, sync, val, mut, clock>>

\* PushSubmissionData: r.lb.GetUserEntity
RunGetEntity(r) ==
    /\ req[r].pc = "getEntity"
    /\ req' = [req EXCEPT ![r] = [@ EXCEPT !.existingEntity = GetUserEntity(req[r].userId),
                                            !.pc = "board"]]
    /\ UNCHANGED <<challenges, cache, chal, query, splice, problems, submissions, problemsDone, lb, sync, val, mut, clock>>

\* PushSubmissionData: AddUser for a new user, IncrementScore otherwise
RunBoard(r) ==
    /\ req[r].pc = "board"
    /\ lb' = IF req[r].existingEntity = ""
             THEN AddUser(lb, req[r].userId, ToUpper(req[r].country), req[r].score)
             ELSE IncrementScore(lb, req[r].userId, req[r].existingEntity, req[r].score)
    /\ req' = [req EXCEPT ![r].pc = "flush"]
    /\ UNCHANGED <<challenges, cache, chal, query, splice, problems, submissions, problemsDone, sync, val, mut, clock>>

\* processSubmission's cache deletes, then RunUserCodeProblem's own and its response
RunFlush(r) ==
    /\ req[r].pc = "flush"
    /\ req' = [req EXCEPT ![r] = Finished(req[r])]
    /\ cache' = [k \in DOMAIN cache |->
                   IF k \in { <<"submissions", req[r].problemId, req[r].userId>>,
                              <<"heatmap", req[r].userId, ToString(Today.y), ToString(Today.m)>>,
                              <<"stats", req[r].userId>> }
                   THEN NoEntry ELSE cache[k]]
    /\ UNCHANGED <<challenges, chal, query, splice, problems, submissions, problemsDone, lb, sync, val, mut, clock>>

\* PushSubmissionData: the Mongo call it is about to make (CountDocuments, the
\* Submission InsertOne or the ProblemDone InsertOne) returns an error, because
\* the store failed or because ctx is already cancelled; processSubmission runs
\* with the RPC's ctx, on the compile-error branch too, where the handler has
\* returned by then. The error is returned at once and processSubmission logs it.
RunMongoError(r) ==
    /\ req[r].pc \in {"process", "insertSub", "insertDone"}
    /\ ~SkipSubmission(req[r].isRun, req[r].userId)
    /\ req[r].country # NIL
    /\ req' = [req EXCEPT ![r].pc = "flush"]
    /\ UNCHANGED <<challenges, cache, chal, query, splice, problems, submissions, problemsDone,
                   lb, sync, val, mut, clock>>

\* ---------------------------------------------------- SyncLeaderboardToRedis
\* the $sort submittedAt / $group userId aggregation over ProblemDone
Aggregate ==
    { LET mine == {d \in problemsDone : d.userId = u}
          first == CHOOSE d \in mine : \A e \in mine : d.submittedAt <= e.submittedAt
      IN [id |-> u, totalScore |-> SumScores(mine), primaryCountry |-> first.country]
      : u \in {d.userId : d \in problemsDone} }

\* the cron tick: submissionFirstSuccessCollection.Aggregate
SyncStart ==
    /\ sync.pc \in {"idle", "returned", "failed"}
    /\ sync' = [pc |-> "replay", rows |-> Aggregate]
    /\ UNCHANGED <<challenges, cache, chal, query, splice, problems, submissions, problemsDone, lb, req, val, mut, clock>>

\* one cursor.Next iteration: r.lb.AddUser(row), or its error
SyncAddUser ==
    /\ sync.pc = "replay"
    /\ \E row \in sync.rows :
         \/ /\ lb' = AddUser(lb, row.id, row.primaryCountry, row.totalScore)
            /\ sync' = [sync EXCEPT !.rows = @ \ {row}]
         \/ /\ lb' = lb
            /\ sync' = [sync EXCEPT !.pc = "failed", !.rows = {}]
    /\ UNCHANGED <<challenges, cache, chal, query, splice, problems, submissions, problemsDone, req, val, mut, clock>>

\* the cursor is exhausted: return cursor.Err()
SyncReturn ==
    /\ sync.pc = "replay"
    /\ sync.rows = {}
    /\ sync' = [sync EXCEPT !.pc = "returned"]
    /\ UNCHANGED <<challenges, cache, chal, query, splice, problems, submissions, problemsDone, lb, req, val, mut, clock>>

\* ------------------------------------- template splicing (RunUserCodeProblem)
RECURSIVE ReplaceEvery(_, _, _, _)
\* (variant) the count is not honoured: every occurrence is replaced
ReplaceEvery(s, old, new, n) ==
    IF s = <<>> THEN s
    ELSE IF Head(s) = old THEN new \o ReplaceEvery(Tail(s), old, new, n)
    ELSE <<Head(s)>> \o ReplaceEvery(Tail(s), old, new, n)

RECURSIVE Replace(_, _, _, _)
\* strings.Replace(s, old, new, n): the first n occurrences of token old become new
Replace(s, old, new, n) ==
    IF s = <<>> \/ n = 0 THEN s
    ELSE IF Head(s) = old THEN new \o Replace(Tail(s), old, new, n - 1)
    ELSE <<Head(s)>> \o Replace(Tail(s), old, new, n)

\* strings.ReplaceAll(s, old, new)
ReplaceAll(s, old, new) == Replace(s, old, new, Len(s))

\* (variant) only the long language names are escaped
EscapedLanguageLongNames(language) == language \in {"python", "javascript"}

\* the languages whose test-case JSON is escaped before splicing
EscapedLanguage(language) == language \in {"python", "javascript", "py", "js"}

\* the test cases go into the template: tmpl after the {TESTCASE_PLACEHOLDER} replace
SpliceCases ==
    /\ splice.pc = "cases"
    /\ splice' =
          [splice EXCEPT
             !.pc = "code",
             !.tmpl = IF EscapedLanguage(splice.language)
                      THEN Replace(splice.template, TESTCASE_PLACEHOLDER,
                                   ReplaceAll(splice.testCasesJSON, Quote, <<Backslash, Quote>>), 1)
                      ELSE Replace(splice.template, TESTCASE_PLACEHOLDER, splice.testCasesJSON, 1)]
    /\ UNCHANGED <<challenges, cache, chal, query, problems, submissions, problemsDone, lb, req, sync, val, mut, clock>>

\* the user code goes in: tmpl is the "code" of the compiler request
SpliceCode ==
    /\ splice.pc = "code"
    /\ splice' = [splice EXCEPT
                    !.pc = "sent",
                    !.tmpl = Replace(splice.tmpl, FUNCTION_PLACEHOLDER, splice.userCode, 1)]
    /\ UNCHANGED <<challenges, cache, chal, query, problems, submissions, problemsDone, lb, req, sync, val, mut, clock>>

\* ----------------------------------------- GetMonthlyContributionHistory
\* the year is a leap year
IsLeap(y) == y % 4 = 0 /\ (y % 100 # 0 \/ y % 400 = 0)

\* time.Date(year, month, day, ...) as a day number: the month is normalized
\* into 1..12 (carrying into the year), the day counts on from the first
DayNumber(year, month, day) ==
    LET y == year + (month - 1) \div 12
        m == ((month - 1) % 12) + 1
        daysBefore == <<0, 31, 59, 90, 120, 151, 181, 212, 243, 273, 304, 334>>
    IN 365 * (y - 1) + (y - 1) \div 4 - (y - 1) \div 100 + (y - 1) \div 400
         + daysBefore[m] + (IF IsLeap(y) /\ m >= 3 THEN 1 ELSE 0) + day

\* (variant) every month has thirty days
LastDayThirty(year, month) == 30

\* lastDay: the Day() of day 0 of the following month
LastDay(year, month) == DayNumber(year, month + 1, 0) - DayNumber(year, month, 1) + 1

\* the aggregation: $match of the month's range, $group by day, $project
ActivityRows(activity, year, month) ==
    { [date |-> dt, count |-> activity[dt], isActive |-> activity[dt] > 0] :
        dt \in { x \in DOMAIN activity :
                    /\ activity[x] > 0
                    /\ DayNumber(x.y, x.m, x.d) >= DayNumber(year, month, 1)
                    /\ DayNumber(x.y, x.m, x.d) <= DayNumber(year, month, LastDay(year, month)) } }

\* cursor.All into []model.ActivityDay
DecodeActivityDays(rows) == rows

\* baseDays merged with the decoded rows, in baseDays order
MergeDays(year, month, activityDays) ==
    [day \in 1 .. LastDay(year, month) |->
        LET date == [y |-> year, m |-> month, d |-> day]
        IN IF \E row \in activityDays : row.date = date
           THEN CHOOSE row \in activityDays : row.date = date
           ELSE [date |-> date, count |-> 0, isActive |-> FALSE]]

\* GetMonthlyContributionHistory(userID, month, year)
GetMonthlyContributionHistory ==
    /\ query.pc = "call" /\ query.op = "GetMonthlyContributionHistory"
    /\ LET in == query.in
           dflt == in.month = 0 \/ in.year = 0
           year == IF dflt THEN in.now.y ELSE in.year
           month == IF dflt THEN in.now.m ELSE in.month
       IN query' =
            IF in.userID = ""
            THEN [query EXCEPT !.pc = "returned", !.err = TRUE]
            ELSE [query EXCEPT
                    !.pc = "returned",
                    !.out = MergeDays(year, month,
                                      DecodeActivityDays(ActivityRows(in.activity, year, month)))]
    /\ UNCHANGED <<challenges, cache, chal, problems, submissions, problemsDone, lb, req, sync, val, mut, clock, splice>>

\* ------------------------------------------- durable-store fallbacks
\* $group by userId with totalScore = $sum score, over the ProblemDone in docs
GroupByUser(docs) ==
    { [id |-> u, totalScore |-> SumScores({d \in docs : d.userId = u})]
      : u \in {d.userId : d \in docs} }

\* the 1-based positions at which the cursor of rows sorted by totalScore
\* descending may yield user u (rows of equal score come in any order), 0 when
\* the cursor ends without u
Positions(rows, u) ==
    IF \A row \in rows : row.id # u THEN {0}
    ELSE LET mine == CHOOSE row \in rows : row.id = u
             above == Cardinality({row \in rows : row.totalScore > mine.totalScore})
             level == Cardinality({row \in rows : row.totalScore = mine.totalScore /\ row.id # u})
         IN {above + 1 + t : t \in 0 .. level}

\* GetUserRankMongo: FindOne decodes into a copy of userEntity, which stays ""
GetUserRankMongo(userID) ==
    LET userEntity == ""
        found == \E d \in problemsDone : d.userId = userID
    IN [globalRank : Positions(GroupByUser(problemsDone), userID),
        entityRank : IF found
                     THEN Positions(GroupByUser({d \in problemsDone : d.country = userEntity}),
                                    userID)
                     ELSE {0}]

\* GetTopKEntityMongo, for k not below the number of users: $match on the
\* country comes before the $group
GetTopKEntityMongo(entity) ==
    { [id |-> row.id, totalScore |-> row.totalScore, primaryCountry |-> entity]
      : row \in GroupByUser({d \in problemsDone : d.country = entity}) }

\* a leaderboard read answered by the durable-store fallback
FallbackRead ==
    /\ query.pc \in {"idle", "returned"}
    /\ \E in \in FallbackInputs :
         \E out \in (IF in.op = "GetUserRankMongo"
                      THEN GetUserRankMongo(in.userId)
                      ELSE {GetTopKEntityMongo(in.entity)}) :
            query' = [pc |-> "returned", op |-> in.op, in |-> in, out |-> out, err |-> FALSE]
    /\ UNCHANGED <<problems, submissions, problemsDone, lb, req, sync, val, mut, clock, splice,
                   challenges, cache, chal>>

\* --------------------------------------- cached reads of a user's activity
\* the key the read RPC caches its response under
ReadKey(in) ==
    CASE in.op = "GetSubmissionsByOptionalProblemID" -> <<"submissions", in.problemId, in.userId>>
      [] in.op = "GetProblemsDoneStatistics" -> <<"stats", in.userId>>
      [] OTHER -> <<"heatmap", in.userId, ToString(in.year), ToString(in.month)>>

\* what the repository answers: the user's submissions (of the problem, when
\* one is given), the user's ProblemDone per difficulty, the month's activity
ReadView(in) ==
    CASE in.op = "GetSubmissionsByOptionalProblemID" ->
           {sub \in submissions : /\ sub.userId = in.userId
                                   /\ in.problemId # "" => sub.problemId = in.problemId}
      [] in.op = "GetProblemsDoneStatistics" ->
           [d \in {"E", "M", "H"} |->
              Cardinality({x \in problemsDone : x.userId = in.userId /\ x.difficulty = d})]
      [] OTHER ->
           IF (in.month = 0 \/ in.year = 0) \/ (in.year = Today.y /\ in.month = Today.m)
           THEN Cardinality({sub \in submissions : sub.userId = in.userId}) ELSE 0

\* the read RPC arrives: the cached entry if there is one
ReadGet ==
    /\ query.pc \in {"idle", "returned"}
    /\ \E in \in ReadInputs :
         query' = IF cache[ReadKey(in)].hit
                  THEN [pc |-> "returned", op |-> in.op, in |-> in,
                        out |-> cache[ReadKey(in)].value, err |-> FALSE]
                  ELSE [pc |-> "read", op |-> in.op, in |-> in, out |-> <<>>, err |-> FALSE]
    /\ UNCHANGED <<problems, submissions, problemsDone, lb, req, sync, val, mut, clock, splice,
                   challenges, cache, chal>>

\* the repository call of the read RPC
ReadFetch ==
    /\ query.pc = "read"
    /\ query' = [query EXCEPT !.pc = "store", !.out = ReadView(query.in)]
    /\ UNCHANGED <<problems, submissions, problemsDone, lb, req, sync, val, mut, clock, splice,
                   challenges, cache, chal>>

\* Set of the response under the read's key
ReadSet ==
    /\ query.pc = "store"
    /\ cache' = [cache EXCEPT ![ReadKey(query.in)] = [hit |-> TRUE, value |-> query.out]]
    /\ query' = [query EXCEPT !.pc = "returned"]
    /\ UNCHANGED <<problems, submissions, problemsDone, lb, req, sync, val, mut, clock, splice,
                   challenges, chal>>

\* ------------------------------ GetProblem, GetProblemByIDSlug (cached reads)
\* what the repository call of the endpoint returns for problem id, as the JSON
\* object json.Marshal makes of it: GetProblemResponse{Problem: ToProblem(p)},
\* or GetProblemByIdSlugResponse{Problemmetdata: ToProblemMetadataLite(p), Message}
ProblemView(op, id) ==
    LET p == FindProblem(id)
        lite == [problemId |-> id, title |-> p.title, difficulty |-> p.difficulty,
                 run |-> p.run, languages |-> p.languages, validated |-> p.validated,
                 placeholderMaps |-> p.validateCode]
    IN IF op = "GetProblem"
       THEN [problem |-> p]
       ELSE IF p.exists
            THEN [problemmetdata |-> lite, message |-> "Problem retrieved successfully"]
            ELSE [message |-> "Problem not found"]

\* json.Unmarshal of a cached object into the endpoint's response type: the
\* fields the type has are taken from the object, fields it does not have are
\* skipped without error, and fields the object lacks stay at their zero value
Unmarshal(op, js) ==
    LET fields == IF op = "GetProblem" THEN {"problem"} ELSE {"problemmetdata", "message"}
    IN [f \in fields \cap DOMAIN js |-> js[f]]

\* the endpoint arrives: Get of "problem:{id}"; a hit that decodes is returned
ProblemGet ==
    /\ query.pc \in {"idle", "returned"}
    /\ \E op \in {"GetProblem", "GetProblemByIDSlug"} :
         LET in == [problemId |-> "p1"]
             entry == cache[<<"problem", in.problemId>>]
         IN query' = IF entry.hit
                     THEN [pc |-> "returned", op |-> op, in |-> in,
                           out |-> Unmarshal(op, entry.value), err |-> FALSE]
                     ELSE [pc |-> "read", op |-> op, in |-> in, out |-> <<>>, err |-> FALSE]
    /\ UNCHANGED <<problems, submissions, problemsDone, lb, req, sync, val, mut, clock, splice,
                   challenges, cache, chal>>

\* the repository call of the endpoint and the marshalling of its response
ProblemFetch ==
    /\ query.pc = "read" /\ query.op \in {"GetProblem", "GetProblemByIDSlug"}
    /\ query' = [query EXCEPT !.pc = "store", !.out = ProblemView(query.op, query.in.problemId)]
    /\ UNCHANGED <<problems, submissions, problemsDone, lb, req, sync, val, mut, clock, splice,
                   challenges, cache, chal>>

\* Set of the marshalled response under "problem:{id}" for 5 s, then the return
ProblemSet ==
    /\ query.pc = "store" /\ query.op \in {"GetProblem", "GetProblemByIDSlug"}
    /\ cache' = [cache EXCEPT ![<<"problem", query.in.problemId>>] =
                    [hit |-> TRUE, value |-> query.out]]
    /\ query' = [query EXCEPT !.pc = "returned"]
    /\ UNCHANGED <<problems, submissions, problemsDone, lb, req, sync, val, mut, clock, splice,
                   challenges, chal>>

\* --------------------------------------- ForceChangeUserEntityInSubmission
\* s.LB.UpdateEntityByUserID(req.UserId, req.Entity)
ForceBoard ==
    /\ query.pc \in {"idle", "returned"}
    /\ \E in \in ForceInputs :
         /\ lb' = UpdateEntityByUserID(lb, in.userId, in.entity)
         /\ query' = [pc |-> "rows", op |-> "ForceChangeUserEntityInSubmission", in |-> in,
                      out |-> <<>>, err |-> FALSE]
    /\ UNCHANGED <<problems, submissions, problemsDone, req, sync, val, mut, clock, splice,
                   challenges, cache, chal>>

\* Repository.ForceChangeUserCountryInSubmission: UpdateMany over ProblemDone
ForceRows ==
    /\ query.pc = "rows"
    /\ problemsDone' = { IF d.userId = query.in.userId
                         THEN [d EXCEPT !.country = ToUpper(query.in.entity)] ELSE d
                         : d \in problemsDone }
    /\ query' = [query EXCEPT !.pc = "returned"]
    /\ UNCHANGED <<problems, submissions, lb, req, sync, val, mut, clock, splice,
                   challenges, cache, chal>>

\* ------------------------------------------------------- the Redis cache
\* RedisCache.Delete(key): DEL of the key as given
Delete(c, keys) == [k \in DOMAIN c |-> IF k \in keys THEN NoEntry ELSE c[k]]

\* a cached entry reaches its expiration
CacheExpire ==
    /\ \E k \in DOMAIN cache : cache[k].hit /\ cache' = [cache EXCEPT ![k] = NoEntry]
    /\ UNCHANGED <<problems, submissions, problemsDone, lb, req, sync, val, mut, clock, splice,
                   query, challenges, chal>>

\* ------------------------------------------------------- challenge RPCs
\* the document CreateChallenge inserts
NewChallenge(in, password) ==
    [exists |-> TRUE, title |-> in.title, creatorId |-> in.userId, isPrivate |-> in.isPrivate,
     password |-> password, timeLimit |-> in.timeLimit, isActive |-> TRUE,
     participantIds |-> <<in.userId>>, status |-> "CREATED", startTime |-> 0, endTime |-> 0]

\* the repository's reading half of a challenge RPC: "" to go on to the write,
\* else the refusal ("Already joined" and "Invalid password" are responses, not errors)
ChalRefusal(in) ==
    LET c == IF in.id \in ChallengeIds THEN challenges[in.id] ELSE EmptyChallenge
    IN CASE in.op = "CreateChallenge" ->
              IF \E d \in ChallengeIds : challenges[d].exists /\ challenges[d].title = in.title
              THEN "challenge with this title already exists" ELSE ""
         [] ~c.exists -> "challenge not found"
         [] in.op = "JoinChallenge" ->
              IF c.isPrivate /\ (in.password = NIL \/ in.password # c.password)
              THEN "Invalid password"
              ELSE IF \E i \in DOMAIN c.participantIds : c.participantIds[i] = in.userId
                   THEN "Already joined" ELSE ""
         [] in.op = "StartChallenge" ->
              IF c.creatorId # in.userId THEN "only creator can start challenge"
              ELSE IF c.isActive THEN "challenge already active" ELSE ""
         [] OTHER ->
              IF c.creatorId # in.userId THEN "only creator can end challenge"
              ELSE IF ~c.isActive THEN "challenge not active" ELSE ""

\* the cache keys a challenge RPC deletes before it returns
ChalCacheKeys(in, id) ==
    CASE in.op = "CreateChallenge" -> IF in.isPrivate THEN {} ELSE {<<"challenges", "public", "*">>}
      [] in.op = "JoinChallenge" -> {<<"challenge_details", id, "*">>}
      [] OTHER -> {<<"challenge_details", id, "*">>, <<"challenges", "public", "*">>}

\* the RPC arrives: request validation, then FindOne (CountDocuments for a
\* create) and the checks on the document read
ChalFind(o, in) ==
    /\ chal[o].pc = "idle"
    /\ o > 1 => chal[o - 1].pc # "idle"
    /\ LET refusal == ChalRefusal(in)
       IN chal' = [chal EXCEPT ![o] =
            CASE refusal = "" ->
                   [pc |-> "update", in |-> in, id |-> in.id, ok |-> FALSE, message |-> ""]
              [] refusal = "Already joined" ->
                   [pc |-> "invalidate", in |-> in, id |-> in.id, ok |-> TRUE, message |-> refusal]
              [] refusal = "Invalid password" ->
                   [pc |-> "invalidate", in |-> in, id |-> in.id, ok |-> FALSE, message |-> refusal]
              [] OTHER ->
                   [pc |-> "done", in |-> in, id |-> in.id, ok |-> FALSE, message |-> refusal]]
    /\ UNCHANGED <<problems, submissions, problemsDone, lb, req, sync, val, mut, clock, splice,
                   query, challenges, cache>>

\* the document after the RPC's UpdateOne
ChalApply(in, c, now) ==
    CASE in.op = "JoinChallenge" ->
           [c EXCEPT !.participantIds = Append(@, in.userId)]
      [] in.op = "StartChallenge" ->
           [c EXCEPT !.isActive = TRUE, !.startTime = now, !.status = "ACTIVE",
                     !.endTime = now + c.timeLimit * 60]
      [] OTHER ->
           [c EXCEPT !.isActive = FALSE, !.status = "COMPLETED", !.endTime = now]

\* InsertOne of a create, UpdateOne {_id} of the others
ChalUpdate(o) ==
    /\ chal[o].pc = "update"
    /\ LET in == chal[o].in
       IN IF in.op = "CreateChallenge"
          THEN /\ \E d \in ChallengeIds : ~challenges[d].exists
               /\ LET id == CHOOSE d \in ChallengeIds : ~challenges[d].exists
                  IN /\ challenges' = [challenges EXCEPT
                                         ![id] = NewChallenge(in, IF in.isPrivate THEN "pw" ELSE "")]
                     /\ chal' = [chal EXCEPT ![o].pc = "invalidate", ![o].id = id, ![o].ok = TRUE]
          ELSE /\ challenges' = [challenges EXCEPT ![in.id] = ChalApply(in, @, clock)]
               /\ chal' = [chal EXCEPT ![o].pc = "invalidate", ![o].ok = TRUE]
    /\ UNCHANGED <<problems, submissions, problemsDone, lb, req, sync, val, mut, clock, splice,
                   query, cache>>

\* the service deletes its cache keys and returns the repository's response
ChalInvalidate(o) ==
    /\ chal[o].pc = "invalidate"
    /\ cache' = Delete(cache, ChalCacheKeys(chal[o].in, chal[o].id))
    /\ chal' = [chal EXCEPT ![o].pc = "done"]
    /\ UNCHANGED <<problems, submissions, problemsDone, lb, req, sync, val, mut, clock, splice,
                   query, challenges>>

\* time passes
ChalTick ==
    /\ clock < MaxTime
    /\ clock' = clock + 1
    /\ UNCHANGED <<problems, submissions, problemsDone, lb, req, sync, val, mut, splice,
                   query, challenges, cache, chal>>

\* GetChallengeDetails: the cached entry if there is one
DetailsGet ==
    /\ query.pc \in {"idle", "returned"}
    /\ \E id \in ChallengeIds :
         LET key == <<"challenge_details", id>>
         IN query' = IF cache[key].hit
                     THEN [pc |-> "returned", op |-> "GetChallengeDetails", in |-> id,
                           out |-> cache[key].value, err |-> FALSE]
                     ELSE [pc |-> "fetch", op |-> "GetChallengeDetails", in |-> id,
                           out |-> <<>>, err |-> FALSE]
    /\ UNCHANGED <<problems, submissions, problemsDone, lb, req, sync, val, mut, clock, splice,
                   challenges, cache, chal>>

\* GetChallengeDetails: GetChallenge and GetChallengeLeaderboard
DetailsFetch ==
    /\ query.pc = "fetch"
    /\ query' = IF challenges[query.in].exists
                THEN [query EXCEPT !.pc = "set", !.out = challenges[query.in]]
                ELSE [query EXCEPT !.pc = "returned", !.err = TRUE]
    /\ UNCHANGED <<problems, submissions, problemsDone, lb, req, sync, val, mut, clock, splice,
                   challenges, cache, chal>>

\* GetChallengeDetails: Set of the response under challenge_details:{id}
DetailsSet ==
    /\ query.pc = "set"
    /\ cache' = [cache EXCEPT ![<<"challenge_details", query.in>>] =
                                  [hit |-> TRUE, value |-> query.out]]
    /\ query' = [query EXCEPT !.pc = "returned"]
    /\ UNCHANGED <<problems, submissions, problemsDone, lb, req, sync, val, mut, clock, splice,
                   challenges, chal>>

\* ------------------------------------------------ problem mutators (RPCs)
\* the cache keys a problem handler deletes after its repository call succeeded;
\* UpdateProblem builds its keys with *req.Title, which panics when no title was
\* sent, before the first Delete
ProblemCacheKeys(in) ==
    CASE in.op = "CreateProblem" -> {<<"problems_list", "*">>}
      [] in.op = "DeleteProblem" -> {<<"problem", in.problemId>>, <<"problems_list", "*">>}
      [] in.op = "UpdateProblem" ->
           IF in.field = "title"
           THEN {<<"problem", in.problemId>>, <<"problem_slug", in.value>>, <<"problems_list", "*">>}
           ELSE {}
      [] OTHER -> {<<"problem", in.problemId>>}

\* the ids held by a test-case bucket, the languages of a list
Ids(seq) == {seq[i] : i \in DOMAIN seq}

\* primitive.NewObjectID().Hex() drawn at logical time n
NewObjectID(n) == <<"g1", "g2", "g3", "g4", "g5", "g6", "g7", "g8">>[n]

\* the cases of a request that come without an id
Generated(tcs) == Len(SelectSeq(tcs, LAMBDA id : id = ""))

RECURSIVE ToTestCases(_, _, _)
\* repository.toTestCases: each case of the request in order, an empty id replaced
\* by a generated one, the case skipped when the problem already holds its id
ToTestCases(tcs, existingIDs, n) ==
    IF tcs = <<>> THEN <<>>
    ELSE LET id == IF Head(tcs) = "" THEN NewObjectID(n) ELSE Head(tcs)
             rest == ToTestCases(Tail(tcs), existingIDs, IF Head(tcs) = "" THEN n + 1 ELSE n)
         IN IF id \in existingIDs THEN rest ELSE <<id>> \o rest

\* CountDocuments({title, _id: {$ne: id}, deleted_at: nil}) > 0
TitleTaken(id, title) ==
    \E q \in DocIds \ {id} :
        problems[q].exists /\ ~problems[q].deleted /\ problems[q].title = title

\* the checks a mutator makes on the document it read: "" to go on, else its refusal
MutRefusal(problem, in) ==
    IF ~ValidHex(in.problemId) \/ ~problem.exists THEN "Problem not found"
    ELSE CASE in.op = "AddTestCases" ->
                 IF Len(problem.run) + Len(in.run) > RunCap THEN "Run test case limit (3) exceeded"
                 ELSE IF Len(problem.submit) + Len(in.submit) > SubmitCap
                      THEN "Submit test case limit (100) exceeded"
                 ELSE ""
           [] in.op = "DeleteTestCase" ->
                 IF in.id \in Ids(IF in.isRun THEN problem.run ELSE problem.submit)
                 THEN "" ELSE "Testcase not found"
           [] in.op = "AddLanguageSupport" ->
                 IF in.language \in Ids(problem.languages) THEN "Language already supported" ELSE ""
           [] in.op \in {"UpdateLanguageSupport", "RemoveLanguageSupport"} ->
                 IF in.language \in Ids(problem.languages) THEN "" ELSE "Language not supported"
           [] OTHER ->  \* UpdateProblem
                 IF in.field \in {"title", "description", "difficulty"} /\ in.value = ""
                 THEN "cannot be empty"
                 ELSE IF in.field = "title" /\ TitleTaken(in.problemId, in.value)
                 THEN "Another problem with this title already exists"
                 ELSE ""

\* (variant) only UpdateProblem clears the flag
ResetsValidationContentOnly(in) == in.op = "UpdateProblem" /\ in.field # "none"

\* the mutator's $set carries validated: false
\* (UpdateProblem: only when a title, description, tags or difficulty was given)
ResetsValidation(in) == in.op # "UpdateProblem" \/ in.field # "none"

\* the mutator's UpdateOne({_id: id}, update) applied to the stored document
MutApply(doc, in, newRun, newSubmit) ==
    LET base == IF ResetsValidation(in) THEN [doc EXCEPT !.validated = FALSE] ELSE doc
        vc == doc.validateCode
    IN CASE in.op = "AddTestCases" ->
               [base EXCEPT !.run = @ \o newRun, !.submit = @ \o newSubmit]
         [] in.op = "DeleteTestCase" ->
               IF in.isRun
               THEN [base EXCEPT !.run = SelectSeq(@, LAMBDA id : id # in.id)]
               ELSE [base EXCEPT !.submit = SelectSeq(@, LAMBDA id : id # in.id)]
         [] in.op = "AddLanguageSupport" ->
               [base EXCEPT !.languages = Append(@, in.language),
                            !.validateCode = [l \in DOMAIN vc \cup {in.language} |->
                                                IF l = in.language
                                                THEN [placeholder |-> in.placeholder] ELSE vc[l]]]
         [] in.op = "UpdateLanguageSupport" ->
               [base EXCEPT !.validateCode = [l \in DOMAIN vc \cup {in.language} |->
                                                IF l = in.language
                                                THEN [placeholder |-> in.placeholder] ELSE vc[l]]]
         [] in.op = "RemoveLanguageSupport" ->
               [base EXCEPT !.languages = SelectSeq(@, LAMBDA l : l # in.language),
                            !.validateCode = [l \in DOMAIN vc \ {in.language} |-> vc[l]]]
         [] OTHER ->  \* UpdateProblem
               IF in.field = "title" THEN [base EXCEPT !.title = in.value]
               ELSE IF in.field = "difficulty" THEN [base EXCEPT !.difficulty = in.value]
               ELSE base

\* a mutation RPC arrives: FindOne({_id, deleted_at: nil}) and the mutator's checks
MutRead(m, in) ==
    /\ mut[m].pc = "idle"
    /\ m > 1 => mut[m - 1].pc # "idle"
    /\ LET problem == FindProblem(in.problemId)
           isAdd == in.op = "AddTestCases" /\ MutRefusal(problem, in) = ""
       IN /\ mut' = [mut EXCEPT ![m] =
                       IF MutRefusal(problem, in) # ""
                       THEN [IdleMut EXCEPT !.pc = "done"]
                       ELSE [IdleMut EXCEPT
                               !.pc = "write", !.in = in,
                               !.newRun = IF isAdd
                                          THEN ToTestCases(in.run, Ids(problem.run), clock)
                                          ELSE <<>>,
                               !.newSubmit = IF isAdd
                                             THEN ToTestCases(in.submit, Ids(problem.submit),
                                                              clock + Generated(in.run))
                                             ELSE <<>>]]
          /\ clock' = IF isAdd THEN clock + Generated(in.run) + Generated(in.submit) ELSE clock
    /\ UNCHANGED <<challenges, cache, chal, query, splice, problems, submissions, problemsDone, lb, req, sync, val>>

\* the mutator's UpdateOne, the handler's cache deletes and its success response
\* (UpdateProblem without a title: the handler dereferences the nil req.Title
\* while building its cache keys and panics; nothing is deleted or returned)
MutWrite(m) ==
    /\ mut[m].pc = "write"
    /\ LET id == mut[m].in.problemId IN
       /\ problems' = [problems EXCEPT ![id] =
                         MutApply(@, mut[m].in, mut[m].newRun, mut[m].newSubmit)]
       /\ mut' = [mut EXCEPT ![m] =
                     [IdleMut EXCEPT !.pc = "done",
                                     !.ok = ~(mut[m].in.op = "UpdateProblem"
                                                /\ mut[m].in.field # "title"),
                                     !.flipped = problems[id].validated]]
    /\ val' = IF val.pc \in {"idle", "done"} THEN val ELSE [val EXCEPT !.interfered = TRUE]
    /\ cache' = Delete(cache, ProblemCacheKeys(mut[m].in))
    /\ UNCHANGED <<challenges, chal, query, splice, submissions, problemsDone, lb, req, sync, clock>>

\* ------------------------------------- CreateProblem, DeleteProblem (RPCs)
\* the document CreateProblem builds: no test case, no language, validated=false
NewProblem(in) ==
    [EmptyProblem EXCEPT !.exists = TRUE, !.title = in.title, !.difficulty = in.difficulty]

\* CreateProblem arrives: CountDocuments({title, deleted_at: nil}) > 0 refuses
CreateCheck(m, in) ==
    /\ mut[m].pc = "idle"
    /\ m > 1 => mut[m - 1].pc # "idle"
    /\ mut' = [mut EXCEPT ![m] =
                 IF TitleTaken("", in.title)
                 THEN [IdleMut EXCEPT !.pc = "done"]
                 ELSE [IdleMut EXCEPT !.pc = "insert", !.in = in]]
    /\ UNCHANGED <<challenges, cache, chal, query, splice, problems, submissions, problemsDone, lb, req, sync, val, clock>>

\* CreateProblem's InsertOne under a fresh _id, and its success response
CreateInsert(m) ==
    /\ mut[m].pc = "insert"
    /\ \E d \in DocIds : ~problems[d].exists
    /\ LET id == CHOOSE d \in DocIds : ~problems[d].exists
       IN problems' = [problems EXCEPT ![id] = NewProblem(mut[m].in)]
    /\ mut' = [mut EXCEPT ![m] = [IdleMut EXCEPT !.pc = "done", !.ok = TRUE]]
    /\ cache' = Delete(cache, ProblemCacheKeys(mut[m].in))
    /\ UNCHANGED <<challenges, chal, query, splice, submissions, problemsDone, lb, req, sync, val, clock>>

\* DeleteProblem: UpdateOne({_id: id, deleted_at: nil}, {deleted_at: now})
DeleteProblem(id) ==
    /\ FindProblem(id).exists
    /\ problems' = [problems EXCEPT ![id].deleted = TRUE]
    /\ cache' = Delete(cache, ProblemCacheKeys([op |-> "DeleteProblem", problemId |-> id]))
    /\ UNCHANGED <<challenges, chal, query, splice, submissions, problemsDone, lb, req, sync, val, mut, clock>>

\* ---------------------------------------------------- ListProblems (RPC)
\* Repository.ListProblems: the non-deleted problems, skip (page-1)*pageSize,
\* limit pageSize, and their total count
ListPage(page, pageSize) ==
    LET Visible(d) == problems[d].exists /\ ~problems[d].deleted
        all == SelectSeq(DocSeq, Visible)
        skip == (page - 1) * pageSize
        last == IF skip + pageSize < Len(all) THEN skip + pageSize ELSE Len(all)
    IN [problems |-> [i \in 1 .. (IF last > skip THEN last - skip ELSE 0) |->
                        [id |-> all[skip + i], title |-> problems[all[skip + i]].title]],
        total |-> Len(all)]

\* ListProblems: defaults for page and pageSize, then the cached entry if any
ListGet ==
    /\ query.pc \in {"idle", "returned"}
    /\ \E in \in ListInputs :
         LET page == IF in.page < 1 THEN 1 ELSE in.page
             pageSize == IF in.pageSize < 1 THEN 10 ELSE in.pageSize
             key == <<"problems_list", ToString(page), ToString(pageSize)>>
         IN query' = IF cache[key].hit
                     THEN [pc |-> "returned", op |-> "ListProblems",
                           in |-> [page |-> page, pageSize |-> pageSize],
                           out |-> cache[key].value, err |-> FALSE]
                     ELSE [pc |-> "list", op |-> "ListProblems",
                           in |-> [page |-> page, pageSize |-> pageSize],
                           out |-> <<>>, err |-> FALSE]
    /\ UNCHANGED <<problems, submissions, problemsDone, lb, req, sync, val, mut, clock, splice,
                   challenges, cache, chal>>

\* ListProblems: the repository's page
ListFetch ==
    /\ query.pc = "list"
    /\ query' = [query EXCEPT !.pc = "cache", !.out = ListPage(query.in.page, query.in.pageSize)]
    /\ UNCHANGED <<problems, submissions, problemsDone, lb, req, sync, val, mut, clock, splice,
                   challenges, cache, chal>>

\* ListProblems: Set of the response under problems_list:{page}:{pageSize}
ListSet ==
    /\ query.pc = "cache"
    /\ cache' = [cache EXCEPT
                   ![<<"problems_list", ToString(query.in.page), ToString(query.in.pageSize)>>] =
                       [hit |-> TRUE, value |-> query.out]]
    /\ query' = [query EXCEPT !.pc = "returned"]
    /\ UNCHANGED <<problems, submissions, problemsDone, lb, req, sync, val, mut, clock, splice,
                   challenges, chal>>

\* ------------------------------------------- FullValidationByProblemID (RPC)
RECURSIVE LanguageCheck(_, _)
\* BasicValidationByProblemID: the per-language checks, from the i-th language on
LanguageCheck(problem, i) ==
    IF i > Len(problem.languages) THEN ""
    ELSE LET l == problem.languages[i] IN
         IF l \notin DOMAIN problem.validateCode THEN "MISSING_VALIDATION_CODES"
         ELSE IF ~problem.validateCode[l].placeholder THEN "MISSING_PLACEHOLDER"
         ELSE LanguageCheck(problem, i + 1)

\* BasicValidationByProblemID: "" or the first failing precondition
BasicValidation(id, problem) ==
    IF ~ValidHex(id) THEN "INVALID_ID"
    ELSE IF ~problem.exists THEN "NOT_FOUND"
    ELSE IF Len(problem.run) < MinRun /\ Len(problem.submit) < MinSubmit
         THEN "INSUFFICIENT_TESTCASES"
    ELSE IF Len(problem.languages) = 0 THEN "NO_LANGUAGES"
    ELSE LanguageCheck(problem, 1)

\* ToggleProblemValidaition's UpdateOne({_id: id}, {validated, validated_at, updated_at})
Toggle(docs, id, status) ==
    IF id \in DocIds /\ docs[id].exists
    THEN [docs EXCEPT ![id] = [@ EXCEPT !.validated = status, !.validatedAt = clock]]
    ELSE docs

\* (variant) the overallPass value is not looked at
VerdictIgnoresPass(resp) ==
    IF resp.fault THEN "EXECUTION_ERROR"
    ELSE IF resp.message \notin {"pass", "fail", "noField"} THEN "PARSE_ERROR"
    ELSE IF resp.message = "noField" THEN "NO_OUTPUT"
    ELSE "PASS"

\* FullValidationByProblemID: what it makes of RunUserCodeProblem's result
\*   EXECUTION_ERROR   the call returned an error
\*   PARSE_ERROR       res.Message is no JSON object
\*   NO_OUTPUT         no boolean overallPass in it
\*   VALIDATION_FAILED overallPass is false
VerdictOf(resp) ==
    IF resp.fault THEN "EXECUTION_ERROR"
    ELSE IF resp.message \notin {"pass", "fail", "noField"} THEN "PARSE_ERROR"
    ELSE IF resp.message = "noField" THEN "NO_OUTPUT"
    ELSE IF resp.message = "fail" THEN "VALIDATION_FAILED"
    ELSE "PASS"

\* FullValidationByProblemID arrives: BasicValidationByProblemID
ValStart(id) ==
    /\ val.pc \in {"idle", "done"}
    /\ val.calls < MaxVal
    /\ req[ValReq].pc \in {"idle", "done"}
    /\ LET problem == FindProblem(id)
           e == BasicValidation(id, problem)
           v == [IdleVal EXCEPT !.problemId = id, !.calls = val.calls + 1, !.prev = val.resp]
       IN val' = IF e # ""
                 THEN [v EXCEPT !.pc = "toggleFail", !.resp = [NoValResp EXCEPT !.errorType = e]]
                 ELSE [v EXCEPT !.pc = "loop", !.languages = problem.languages,
                                !.validateCode = problem.validateCode, !.i = 1]
    /\ UNCHANGED <<challenges, cache, chal, query, splice, problems, submissions, problemsDone, lb, req, sync, mut, clock>>

\* the loop body up to the call of RunUserCodeProblem with the reference code
ValLoop ==
    /\ val.pc = "loop"
    /\ LET l == val.languages[val.i] IN
       IF l \notin DOMAIN val.validateCode
       THEN /\ val' = [val EXCEPT !.pc = "toggleFail",
                                  !.resp = [NoValResp EXCEPT !.errorType = "CONFIGURATION_ERROR",
                                                             !.language = l]]
            /\ req' = req
       ELSE /\ val' = [val EXCEPT !.pc = "running"]
            /\ req' = [req EXCEPT ![ValReq] = RunBegin(ValReq, ValidationRun(val.problemId, l))]
    /\ UNCHANGED <<challenges, cache, chal, query, splice, problems, submissions, problemsDone, lb, sync, mut, clock>>

\* RunUserCodeProblem has returned: parse res.Message and read overallPass
ValResult ==
    /\ val.pc = "running"
    /\ req[ValReq].resp.returned
    /\ LET verdict == VerdictOf(req[ValReq].resp)
           l == val.languages[val.i]
       IN val' =
            CASE verdict = "PASS" ->
                    IF val.i < Len(val.languages)
                    THEN [val EXCEPT !.pc = "loop", !.i = @ + 1]
                    ELSE [val EXCEPT !.pc = "toggleTrue"]
              [] verdict = "PARSE_ERROR" ->
                    [val EXCEPT !.pc = "done", !.resp = [NoValResp EXCEPT !.fault = TRUE]]
              [] verdict = "NO_OUTPUT" ->
                    [val EXCEPT !.pc = "toggleFail",
                                !.resp = [NoValResp EXCEPT !.errorType = "EXECUTION_ERROR",
                                                           !.language = l]]
              [] OTHER ->
                    [val EXCEPT !.pc = "toggleFail",
                                !.resp = [NoValResp EXCEPT !.errorType = verdict, !.language = l]]
    /\ req' = IF req[ValReq].pc = "done" THEN [req EXCEPT ![ValReq] = IdleReq] ELSE req
    /\ UNCHANGED <<challenges, cache, chal, query, splice, problems, submissions, problemsDone, lb, sync, mut, clock>>

\* a failure branch: ToggleProblemValidaition(false), then the failure response
ValToggleFail ==
    /\ val.pc = "toggleFail"
    /\ problems' = Toggle(problems, val.problemId, FALSE)
    /\ val' = [val EXCEPT !.pc = "done"]
    /\ UNCHANGED <<challenges, cache, chal, query, splice, submissions, problemsDone, lb, req, sync, mut, clock>>

\* every language passed: ToggleProblemValidaition(true), its UpdateOne
ValToggleTrue ==
    /\ val.pc = "toggleTrue"
    /\ problems' = Toggle(problems, val.problemId, TRUE)
    /\ val' = [val EXCEPT !.pc = "readBack"]
    /\ UNCHANGED <<challenges, cache, chal, query, splice, submissions, problemsDone, lb, req, sync, mut, clock>>

\* ToggleProblemValidaition(true), its FindOne: the post-write value is the status
ValReadBack ==
    /\ val.pc = "readBack"
    /\ val' = IF FindProblem(val.problemId).validated
              THEN [val EXCEPT !.pc = "done", !.resp = [NoValResp EXCEPT !.success = TRUE]]
              ELSE [val EXCEPT !.pc = "toggleBack"]
    /\ UNCHANGED <<challenges, cache, chal, query, splice, problems, submissions, problemsDone, lb, req, sync, mut, clock>>

\* the status read back was false: ToggleProblemValidaition(false),
\* "Full Validation completed, but failed to toggle status"
ValToggleBack ==
    /\ val.pc = "toggleBack"
    /\ problems' = Toggle(problems, val.problemId, FALSE)
    /\ val' = [val EXCEPT !.pc = "done", !.resp = NoValResp]
    /\ UNCHANGED <<challenges, cache, chal, query, splice, submissions, problemsDone, lb, req, sync, mut, clock>>

\* --------------------------------------------------------- specifications
\* scoring and leaderboard: concurrent submits and the full resync
Next ==
    \/ \E r \in ReqIds, in \in SubmitInputs : RunStart(r, in)
    \/ \E r \in ReqIds, k \in ScoreReplies : RunNatsRequest(r, k)
    \/ \E r \in ReqIds : RunProcess(r)
    \/ \E r \in ReqIds : RunInsertSub(r)
    \/ \E r \in ReqIds : RunInsertDone(r)
    \/ \E r \in ReqIds : RunGetEntity(r)
    \/ \E r \in ReqIds : RunBoard(r)
    \/ \E r \in ReqIds : RunFlush(r)

Spec == Init /\ [][Next]_vars

\* leaderboard coherence: live submits running alongside the hourly full resync
NextSync ==
    \/ \E r \in LiveIds, in \in SubmitInputs : RunStart(r, in)
    \/ \E r \in LiveIds, k \in ScoreReplies : RunNatsRequest(r, k)
    \/ \E r \in LiveIds : RunProcess(r)
    \/ \E r \in LiveIds : RunInsertSub(r)
    \/ \E r \in LiveIds : RunInsertDone(r)
    \/ \E r \in LiveIds : RunGetEntity(r)
    \/ \E r \in LiveIds : RunBoard(r)
    \/ \E r \in LiveIds : RunFlush(r)
    \/ SyncStart
    \/ SyncAddUser
    \/ SyncReturn

SpecSync == Init /\ [][NextSync]_vars

\* entities: one live submit, the full resync and forced entity changes
NextEntity ==
    \/ \E in \in SubmitInputs : RunStart(1, in)
    \/ \E k \in ScoreReplies : RunNatsRequest(1, k)
    \/ RunProcess(1)
    \/ RunInsertSub(1)
    \/ RunInsertDone(1)
    \/ RunGetEntity(1)
    \/ RunBoard(1)
    \/ RunFlush(1)
    \/ SyncStart
    \/ SyncAddUser
    \/ SyncReturn
    \/ ForceBoard
    \/ ForceRows

SpecEntity == Init /\ [][NextEntity]_vars

\* submits whose Mongo calls may fail or find their context cancelled
NextFaults ==
    \/ \E r \in ReqIds, in \in SubmitInputs : RunStart(r, in)
    \/ \E r \in ReqIds, k \in ScoreReplies \cup {"compileErr"} : RunNatsRequest(r, k)
    \/ \E r \in ReqIds : RunProcess(r)
    \/ \E r \in ReqIds : RunInsertSub(r)
    \/ \E r \in ReqIds : RunInsertDone(r)
    \/ \E r \in ReqIds : RunGetEntity(r)
    \/ \E r \in ReqIds : RunBoard(r)
    \/ \E r \in ReqIds : RunFlush(r)
    \/ \E r \in ReqIds : RunMongoError(r)

SpecFaults == Init /\ [][NextFaults]_vars

\* submits alongside leaderboard reads answered by the fallbacks
NextFallback ==
    \/ Next
    \/ FallbackRead

SpecFallback == Init /\ [][NextFallback]_vars

\* a user's submit alongside the cached reads of that user's activity
NextReads ==
    \/ \E in \in SubmitInputs : RunStart(1, in)
    \/ \E k \in ScoreReplies : RunNatsRequest(1, k)
    \/ RunProcess(1)
    \/ RunInsertSub(1)
    \/ RunInsertDone(1)
    \/ RunGetEntity(1)
    \/ RunBoard(1)
    \/ RunFlush(1)
    \/ ReadGet
    \/ ReadFetch
    \/ ReadSet
    \/ CacheExpire

SpecReads == Init /\ [][NextReads]_vars

\* dispatch: every kind of request and every kind of executor reply
NextDispatch ==
    \/ \E r \in RunIds, in \in RunInputs : RunStart(r, in)
    \/ \E r \in RunIds, k \in DispatchReplies : RunNatsRequest(r, k)
    \/ \E r \in RunIds : RunProcess(r)
    \/ \E r \in RunIds : RunInsertSub(r)
    \/ \E r \in RunIds : RunInsertDone(r)
    \/ \E r \in RunIds : RunGetEntity(r)
    \/ \E r \in RunIds : RunBoard(r)
    \/ \E r \in RunIds : RunFlush(r)

SpecDispatch == Init /\ [][NextDispatch]_vars

\* every started handler and goroutine keeps running: each takes its next step
DispatchFairness ==
    \A r \in RunIds :
        /\ WF_vars(\E k \in DispatchReplies : RunNatsRequest(r, k))
        /\ WF_vars(RunProcess(r))
        /\ WF_vars(RunInsertSub(r))
        /\ WF_vars(RunInsertDone(r))
        /\ WF_vars(RunGetEntity(r))
        /\ WF_vars(RunBoard(r))
        /\ WF_vars(RunFlush(r))

SpecDispatchFair == SpecDispatch /\ DispatchFairness

\* validation state machine: full validations of p1 alongside mutations of p1
NextValidation ==
    \/ ValStart("p1")
    \/ ValLoop
    \/ \E k \in ReplyKinds : RunNatsRequest(ValReq, k)
    \/ RunProcess(ValReq)
    \/ ValResult
    \/ ValToggleFail
    \/ ValToggleTrue
    \/ ValReadBack
    \/ ValToggleBack
    \/ \E in \in ValidationMutInputs : MutRead(1, in)
    \/ MutWrite(1)

SpecValidation == InitValidation /\ [][NextValidation]_vars

\* mutation state machine: concurrent mutation RPCs on the validated problem p1
NextMutation ==
    \/ \E m \in MutIds, in \in MutInputs : MutRead(m, in)
    \/ \E m \in MutIds : MutWrite(m)

SpecMutation == Init /\ [][NextMutation]_vars

\* test cases: concurrent AddTestCases and DeleteTestCase on p1
NextTestCases ==
    \/ \E m \in MutIds, in \in TestCaseInputs : MutRead(m, in)
    \/ \E m \in MutIds : MutWrite(m)

SpecTestCases == InitTestCases /\ [][NextTestCases]_vars

\* template splicing, over every stored template, test-case JSON, code and language
NextSplice ==
    \/ SpliceCases
    \/ SpliceCode

SpecSplice == InitSplice /\ [][NextSplice]_vars

\* challenge c1 as CreateChallenge of u1 left it
InitChallenge ==
    /\ submissions = {}
    /\ problemsDone = {}
    /\ lb = [u \in UserIds |-> NoRow]
    /\ req = [r \in AllReqIds |-> IdleReq]
    /\ sync = IdleSync
    /\ val = IdleVal
    /\ mut = [m \in MutIds |-> IdleMut]
    /\ clock = 1
    /\ problems = [p \in DocIds |-> EmptyProblem]
    /\ splice = IdleSplice
    /\ query = IdleQuery
    /\ challenges = [c \in ChallengeIds |->
          IF c = "c1"
          THEN NewChallenge([ChalRequest("CreateChallenge", "", "u1") EXCEPT
                               !.title = "ct1", !.timeLimit = 2], "")
          ELSE EmptyChallenge]
    /\ cache = [k \in CacheKeys |-> NoEntry]
    /\ chal = [o \in ChalIds |-> IdleChal]

\* challenges: concurrent create, join, start, end and cached reads
NextChallenge ==
    \/ \E o \in ChalIds, in \in ChalInputs : ChalFind(o, in)
    \/ \E o \in ChalIds : ChalUpdate(o)
    \/ \E o \in ChalIds : ChalInvalidate(o)
    \/ ChalTick
    \/ DetailsGet
    \/ DetailsFetch
    \/ DetailsSet
    \/ CacheExpire

SpecChallenge == InitChallenge /\ [][NextChallenge]_vars

\* the monthly heatmap, over every requested month, wall clock and activity
NextHeatmap == GetMonthlyContributionHistory

SpecHeatmap == InitHeatmap /\ [][NextHeatmap]_vars

\* problem catalogue: concurrent creates, renames and deletes, and cached listings
NextCatalog ==
    \/ \E m \in MutIds, in \in CreateInputs : CreateCheck(m, in)
    \/ \E m \in MutIds : CreateInsert(m)
    \/ \E m \in MutIds, in \in RenameInputs : MutRead(m, in)
    \/ \E m \in MutIds : MutWrite(m)
    \/ \E id \in {"p1", "p2"} : DeleteProblem(id)
    \/ ListGet
    \/ ListFetch
    \/ ListSet
    \/ CacheExpire

SpecCatalog == Init /\ [][NextCatalog]_vars

\* the two cached problem reads alongside one mutation of problem p1
NextProblemReads ==
    \/ ProblemGet
    \/ ProblemFetch
    \/ ProblemSet
    \/ \E in \in MutInputs : MutRead(1, in)
    \/ MutWrite(1)
    \/ CacheExpire

SpecProblemReads == Init /\ [][NextProblemReads]_vars

\* ------------------------------------------------------------------ claims
\* the scoring table of the data model: E -> 2, M -> 4, H -> 6
ScoreTable(d) == CASE d = "E" -> 2 [] d = "M" -> 4 [] d = "H" -> 6 [] OTHER -> 0

\* the score the index holds for u (0 while u has no row)
BoardScore(board, u) == IF board[u].present THEN board[u].score ELSE 0

\* C1: in every reachable state there is at most one ProblemDone record for each
\* (userId, problemId) pair, whatever the interleaving of concurrent submits.
C1_AtMostOneProblemDone ==
    \A d, e \in problemsDone :
        (d.userId = e.userId /\ d.problemId = e.problemId) => d = e

\* C2: a first successful submission is awarded the table score of the problem's
\* difficulty (E 2, M 4, H 6): when PushSubmissionData updates the leaderboard, the
\* inserted Submission is isFirst with that score, exactly one ProblemDone refers to
\* it with the same score, and the index score of the user rises by that amount.
C2_FirstSuccessAwarded ==
    [][\A r \in ReqIds :
         (req[r].pc = "board" /\ req'[r].pc = "flush") =>
            LET award == ScoreTable(req[r].difficulty) IN
            /\ \E s \in submissions : s.id = r /\ s.isFirst /\ s.score = award
            /\ Cardinality({d \in problemsDone : d.submissionId = r /\ d.score = award}) = 1
            /\ BoardScore(lb', req[r].userId) = BoardScore(lb, req[r].userId) + award]_vars

\* C3: when the user already had a SUCCESS submission on the problem as the request
\* arrived, a successful submit inserts a Submission with status SUCCESS, score 0
\* and isFirst false, and no step of that request adds a ProblemDone or changes
\* the leaderboard.
C3_RepeatSuccessNotRescored ==
    [][\A r \in ReqIds :
         (req'[r] # req[r] /\ req'[r].hadSuccess /\ req'[r].status = "SUCCESS") =>
            /\ problemsDone' = problemsDone
            /\ lb' = lb
            /\ req[r].pc = "insertSub" =>
                 \E s \in submissions' \ submissions :
                    /\ s.id = r /\ s.userId = req[r].userId /\ s.problemId = req[r].problemId
                    /\ s.status = "SUCCESS" /\ s.score = 0 /\ ~s.isFirst]_vars

\* C3 witness: a repeat success has been recorded
C3_Witness ==
    \E r \in ReqIds :
        /\ req[r].pc = "done" /\ req[r].hadSuccess /\ req[r].status = "SUCCESS"
        /\ \E s \in submissions : s.id = r

\* C4: no step of a RunUserCodeProblem whose userId is empty or whose isRunTestcase
\* is true writes a Submission or a ProblemDone or touches the leaderboard,
\* whatever the executor replied.
C4_RunOnlyWritesNothing ==
    [][\A r \in RunIds :
         (req'[r] # req[r] /\ (req'[r].userId = "" \/ req'[r].isRun)) =>
            /\ submissions' = submissions
            /\ problemsDone' = problemsDone
            /\ lb' = lb]_vars

\* C4 witness: a run-only request went through the compile-error branch and an
\* anonymous submit through a passing run
C4_Witness ==
    /\ \E r \in RunIds : req[r].pc = "done" /\ req[r].isRun /\ req[r].reply = "compileErr"
    /\ \E r \in RunIds : req[r].pc = "done" /\ req[r].userId = "" /\ req[r].reply = "pass"

\* C5: on every path RunUserCodeProblem issues at most one request on
\* problems.execute.request (none when it ends before the executor call).
C5_AtMostOneExecutorCall ==
    \A r \in RunIds :
        /\ req[r].natsCalls <= 1
        /\ (req[r].pc = "done" /\ req[r].reply = "") => req[r].natsCalls = 0

\* C5 witness: a transport error, and a request that ended on INVALID_LANGUAGE
C5_Witness ==
    /\ \E r \in RunIds : req[r].pc = "done" /\ req[r].reply = "transportErr" /\ req[r].natsCalls = 1
    /\ \E r \in RunIds : req[r].pc = "done" /\ req[r].resp.errorType = "INVALID_LANGUAGE"

\* the mutations C6 speaks of: UpdateProblem of a title, description, tags or
\* difficulty, and every test-case or language-scaffolding mutation
ContentMutation(in) ==
    in.op # "UpdateProblem" \/ in.field \in {"title", "description", "tags", "difficulty"}

\* mutator m's UpdateOne of such a mutation commits in this step
Commits(m) == mut[m].pc = "write" /\ mut'[m].pc = "done" /\ ContentMutation(mut[m].in)

\* C6 as stated: after any successful mutation of a problem's title, description,
\* tags or difficulty, of its test cases or of its language scaffolding, the
\* problem has validated=false and validatedAt cleared.
C6_MutationClearsValidatedAt ==
    [][\A m \in MutIds :
         Commits(m) =>
            /\ ~problems'[mut[m].in.problemId].validated
            /\ problems'[mut[m].in.problemId].validatedAt = 0]_vars

\* C6 as the code has it: after any such successful mutation the problem has
\* validated=false, and validatedAt still holds the time of the last toggle.
C6_MutationResetsValidated ==
    [][\A m \in MutIds :
         Commits(m) =>
            /\ ~problems'[mut[m].in.problemId].validated
            /\ problems'[mut[m].in.problemId].validatedAt =
                  problems[mut[m].in.problemId].validatedAt]_vars

\* C6 witness: a mutation committed on the validated problem, which is now
\* unvalidated with its validatedAt still set
C6_Witness ==
    /\ \E m \in MutIds : mut[m].pc = "done" /\ mut[m].ok /\ mut[m].flipped
    /\ ~problems["p1"].validated
    /\ problems["p1"].validatedAt # 0

\* C7: whenever FullValidationByProblemID ends without success (basic-validation
\* failure, overallPass=false, no overallPass, or no parseable result), the
\* problem's validated flag is false afterwards.
C7_FailureLeavesUnvalidated ==
    [][(val.pc # "done" /\ val'.pc = "done" /\ ~val'.resp.success) =>
         ~problems'[val'.problemId].validated]_vars

\* C8: when the last supported language passes, the call sets validated=true and,
\* no mutation having committed meanwhile, reports success; when a language's
\* reference run reports overallPass=false, the call returns VALIDATION_FAILED
\* naming that language and leaves validated=false; this holds for a call that
\* follows a failed one as well.
C8_ValidationVerdict ==
    [][/\ (val.pc = "running" /\ val'.pc # "running"
              /\ ~req[ValReq].resp.fault /\ req[ValReq].resp.message = "pass") =>
             IF val.i = Len(val.languages)
             THEN val'.pc = "toggleTrue"
             ELSE val'.pc = "loop" /\ val'.i = val.i + 1
       /\ (val.pc = "toggleTrue" /\ val'.pc # "toggleTrue") =>
             problems'[val.problemId].validated
       /\ (val.pc = "readBack" /\ val'.pc # "readBack" /\ ~val.interfered) =>
             /\ val'.pc = "done"
             /\ val'.resp.success
             /\ problems'[val.problemId].validated
       /\ (val.pc = "running" /\ val'.pc # "running"
              /\ ~req[ValReq].resp.fault /\ req[ValReq].resp.message = "fail") =>
             /\ val'.pc = "toggleFail"
             /\ val'.resp.errorType = "VALIDATION_FAILED"
             /\ val'.resp.language = val.languages[val.i]
       /\ (val.pc = "toggleFail" /\ val'.pc # "toggleFail") =>
             /\ val'.pc = "done"
             /\ val'.resp = val.resp
             /\ ~val'.resp.success
             /\ ~problems'[val.problemId].validated]_vars

\* C8 witness: a call in which go passed and python reported overallPass=false was
\* followed by a call in which both passed, and the problem is validated
C8_Witness ==
    /\ val.pc = "done" /\ val.calls = 2 /\ ~val.interfered
    /\ val.resp.success
    /\ val.prev.errorType = "VALIDATION_FAILED" /\ val.prev.language = "python"
    /\ problems["p1"].validated

\* the ProblemDone documents of user u
DoneOf(u) == {d \in problemsDone : d.userId = u}

\* the country of u's earliest ProblemDone
EarliestCountry(u) ==
    (CHOOSE d \in DoneOf(u) : \A e \in DoneOf(u) : d.submittedAt <= e.submittedAt).country

\* no submit RPC is between its arrival and its end
NoSubmitInFlight == \A r \in LiveIds : req[r].pc \in {"idle", "done", "panic"}

\* C9: immediately after a full resync returns without error, every user with at
\* least one ProblemDone has in the index totalScore = the sum of the user's
\* ProblemDone scores and entity = the country of the earliest ProblemDone
\* (stated here for the returns at which no submit is in flight).
C9_ResyncMatchesDurable ==
    [][(sync.pc = "replay" /\ sync'.pc = "returned" /\ NoSubmitInFlight) =>
         \A u \in UserIds :
            DoneOf(u) # {} =>
               /\ lb'[u].present
               /\ lb'[u].score = SumScores(DoneOf(u))
               /\ lb'[u].entity = EarliestCountry(u)]_vars

\* C10: once a full resync and the live submissions it overlapped with have all
\* finished, each user's index score equals the sum of the user's ProblemDone scores.
C10_ConvergesAfterOverlap ==
    (sync.pc = "returned" /\ NoSubmitInFlight) =>
        \A u \in UserIds : DoneOf(u) # {} => BoardScore(lb, u) = SumScores(DoneOf(u))

\* C11: a user's leaderboard score is monotonic non-decreasing: no step of a
\* submission or of a full resync lowers the score the index holds for a user.
C11_ScoreNeverLowered ==
    [][\A u \in UserIds : BoardScore(lb', u) >= BoardScore(lb, u)]_vars

\* C12: BasicValidationByProblemID returns INSUFFICIENT_TESTCASES for an existing
\* problem unless it has at least 3 run cases and at least 5 submit cases; meeting
\* only one of the two thresholds does not pass.
C12_ThresholdsConjunctive ==
    [][(val'.calls = val.calls + 1
          /\ FindProblem(val'.problemId).exists
          /\ ~(Len(FindProblem(val'.problemId).run) >= MinRun
                 /\ Len(FindProblem(val'.problemId).submit) >= MinSubmit)) =>
         val'.resp.errorType = "INSUFFICIENT_TESTCASES"]_vars

\* the problems a query with deleted_at: nil sees
LiveProblems == {d \in DocIds : problems[d].exists /\ ~problems[d].deleted}

\* C13: in every reachable state no two non-deleted problems share a title, under
\* any interleaving of CreateProblem, UpdateProblem (rename) and DeleteProblem.
C13_TitlesUnique ==
    \A d, e \in LiveProblems : problems[d].title = problems[e].title => d = e

\* C14: in every reachable state each problem has at most 3 run test cases and at
\* most 100 submit test cases, under any interleaving of AddTestCases and
\* DeleteTestCase.
C14_CapsHold ==
    \A d \in DocIds :
        Len(problems[d].run) <= RunCap /\ Len(problems[d].submit) <= SubmitCap

\* the elements of seq are pairwise distinct
Distinct(seq) == \A i, j \in DOMAIN seq : seq[i] = seq[j] => i = j

\* C15: in every reachable state the test-case ids within a problem's run bucket
\* are pairwise distinct, and likewise within its submit bucket, and no stored
\* case has an empty id.
C15_IdsDistinct ==
    \A d \in DocIds :
        /\ Distinct(problems[d].run) /\ Distinct(problems[d].submit)
        /\ "" \notin Ids(problems[d].run) \cup Ids(problems[d].submit)

\* token tok occurs in text s, the number of its occurrences, its first position
Has(s, tok) == \E i \in DOMAIN s : s[i] = tok
Count(s, tok) == Cardinality({i \in DOMAIN s : s[i] = tok})
FirstIndex(s, tok) == CHOOSE i \in DOMAIN s : s[i] = tok /\ \A j \in 1 .. i - 1 : s[j] # tok

\* text s with the token at position i replaced by text new, all else verbatim
SplicedAt(s, i, new) == SubSeq(s, 1, i - 1) \o new \o SubSeq(s, i + 1, Len(s))

\* what stands in text out where the token at position i of text s stood
Middle(s, i, out) == SubSeq(out, i, i + Len(out) - Len(s))

RECURSIVE Unescape(_)
\* text e without the backslash in front of each double quote
Unescape(e) ==
    IF e = <<>> THEN e
    ELSE IF Len(e) >= 2 /\ e[1] = Backslash /\ e[2] = Quote
         THEN <<Quote>> \o Unescape(SubSeq(e, 3, Len(e)))
    ELSE <<Head(e)>> \o Unescape(Tail(e))

C17_EscapedForScripting ==
    [][(splice.pc = "cases" /\ splice'.pc = "code"
          /\ Has(splice.template, TESTCASE_PLACEHOLDER)) =>
         LET m == Middle(splice.template, FirstIndex(splice.template, TESTCASE_PLACEHOLDER),
                         splice'.tmpl)
         IN IF splice.language \in {"py", "python", "js", "javascript"}
            THEN /\ \A i \in DOMAIN m : m[i] = Quote => (i > 1 /\ m[i - 1] = Backslash)
                 /\ Len(m) = Len(splice.testCasesJSON) + Count(splice.testCasesJSON, Quote)
                 /\ Unescape(m) = splice.testCasesJSON
            ELSE m = splice.testCasesJSON]_vars

\* C17 witness: JSON holding double quotes went into a py template escaped
C17_Witness ==
    /\ splice.pc = "code"
    /\ splice.language = "py"
    /\ splice.testCasesJSON = <<Quote, "a", Quote>>
    /\ splice.template = <<"x", TESTCASE_PLACEHOLDER, "x">>
    /\ splice.tmpl = <<"x", Backslash, Quote, "a", Backslash, Quote, "x">>

\* the Submission documents written by invocation r
WrittenBy(r) == {sub \in submissions : sub.id = r}

\* C18: when the problem has no scaffolding for the requested language,
\* RunUserCodeProblem returns success=false with kind INVALID_LANGUAGE, makes no
\* executor call and writes no submission.
C18_InvalidLanguage ==
    \A r \in RunIds :
        (req[r].pc # "idle" /\ ValidHex(req[r].problemId)
           /\ req[r].language \notin DOMAIN FindProblem(req[r].problemId).validateCode) =>
            /\ req[r].pc = "done"
            /\ req[r].resp.returned /\ ~req[r].resp.fault /\ ~req[r].resp.success
            /\ req[r].resp.errorType = "INVALID_LANGUAGE"
            /\ req[r].natsCalls = 0
            /\ WrittenBy(r) = {}

\* C18 witness: a submit by u1 in python, for which p1 has no scaffolding, has ended
C18_Witness ==
    \E r \in RunIds :
        /\ req[r].pc = "done" /\ req[r].language = "python" /\ req[r].problemId = "p1"
        /\ req[r].userId = "u1" /\ ~req[r].isRun
        /\ req[r].resp.errorType = "INVALID_LANGUAGE"

\* C19: when the executor request times out or fails in transport,
\* RunUserCodeProblem returns success=false, kind COMPILATION_ERROR, message
\* "Failed to execute code", and no Submission is written, even for a submit-case
\* request with a non-empty userId.
C19_TransportError ==
    \A r \in RunIds :
        req[r].reply = "transportErr" =>
            /\ req[r].pc = "done"
            /\ req[r].resp.returned /\ ~req[r].resp.fault /\ ~req[r].resp.success
            /\ req[r].resp.errorType = "COMPILATION_ERROR"
            /\ req[r].resp.message = "Failed to execute code"
            /\ WrittenBy(r) = {}

\* C19 witness: the executor call of a submit by u1 with a country failed in transport
C19_Witness ==
    \E r \in RunIds :
        /\ req[r].reply = "transportErr" /\ req[r].userId = "u1" /\ ~req[r].isRun
        /\ req[r].country # NIL /\ req[r].resp.returned

\* C20: when the executor output is a compile error, RunUserCodeProblem returns
\* success=false, kind COMPILATION_ERROR with the raw output as message, and for
\* a submit-case request with non-empty userId a Submission with status=FAILED,
\* score=0 is eventually recorded.
C20_CompileErrorRecorded ==
    \A r \in RunIds :
        /\ [](req[r].reply = "compileErr" =>
                 /\ req[r].resp.returned /\ ~req[r].resp.fault /\ ~req[r].resp.success
                 /\ req[r].resp.errorType = "COMPILATION_ERROR"
                 /\ req[r].resp.message = req[r].reply)
        /\ (req[r].reply = "compileErr" /\ ~req[r].isRun /\ req[r].userId # "")
              ~> (\E sub \in WrittenBy(r) : sub.status = "FAILED" /\ sub.score = 0)

\* invocation r is a submit-case run with a user whose execution was classified
\* FAILED on the synchronous path (overallPass false or unparseable output)
FailedSubmit(r) ==
    /\ req[r].reply \in {"fail", "noField", "garbage"}
    /\ ~req[r].isRun /\ req[r].userId # ""

\* C21: a submit-case execution classified FAILED with non-empty userId always
\* records a Submission with isFirst=false and score=0, and leaves the
\* ProblemDone set and the leaderboard index unchanged.
C21_FailedAlwaysRecorded ==
    \A r \in RunIds :
        /\ [](FailedSubmit(r) =>
                 /\ \A sub \in WrittenBy(r) : ~sub.isFirst /\ sub.score = 0
                 /\ \A d \in problemsDone : d.submissionId # r
                 /\ req[r].pc \notin {"insertDone", "getEntity", "board"})
        /\ FailedSubmit(r) ~> (WrittenBy(r) # {})

\* the number of days of a calendar month
CalendarDays(y, m) ==
    CASE m \in {4, 6, 9, 11} -> 30
      [] m = 2 -> IF y % 4 = 0 /\ (y % 100 # 0 \/ y % 400 = 0) THEN 29 ELSE 28
      [] OTHER -> 31

\* C22: GetMonthlyContributionHistory returns exactly one entry per day of the
\* requested calendar month, in date order, the month and year defaulting to the
\* current ones when either is zero, each entry with isActive = (count > 0)
\* and the count of that day's submissions.
C22_OneEntryPerDay ==
    (query.pc = "returned" /\ query.op = "GetMonthlyContributionHistory"
       /\ query.in.userID # "") =>
        LET in == query.in
            y == IF in.month = 0 \/ in.year = 0 THEN in.now.y ELSE in.year
            m == IF in.month = 0 \/ in.year = 0 THEN in.now.m ELSE in.month
        IN /\ ~query.err
           /\ Len(query.out) = CalendarDays(y, m)
           /\ \A i \in DOMAIN query.out :
                 /\ query.out[i].date = [y |-> y, m |-> m, d |-> i]
                 /\ query.out[i].isActive = (query.out[i].count > 0)
                 /\ query.out[i].count =
                       IF query.out[i].date \in ActivityDates
                       THEN in.activity[query.out[i].date] ELSE 0

\* C22 witness: a call without month and year in February 2024 returned 29
\* entries, the 29th active, the 1st not
C22_Witness ==
    /\ query.pc = "returned" /\ query.op = "GetMonthlyContributionHistory"
    /\ query.in.userID = "u1" /\ query.in.month = 0 /\ query.in.now.m = 2
    /\ Len(query.out) = 29
    /\ query.out[29].isActive /\ query.out[29].count = 2
    /\ ~query.out[1].isActive

\* challenge RPC o, of kind op, takes the step from pc `from` to pc `to`
ChalStep(o, op, from, to) ==
    /\ chal[o].pc = from /\ chal'[o].pc = to
    /\ chal'[o].in.op = op

\* challenge RPC o, of kind op, arrives and is answered by some step
ChalArrives(o, op) ==
    /\ chal[o].pc = "idle" /\ chal'[o].pc # "idle"
    /\ chal'[o].in.op = op

\* C23: StartChallenge by the creator on a challenge in status CREATED is
\* accepted, and its write moves the challenge CREATED -> ACTIVE with
\* endTime = startTime + timeLimit.
C23_StartFromCreated ==
    [][\A o \in ChalIds :
         /\ (ChalArrives(o, "StartChallenge")
               /\ challenges[chal'[o].id].status = "CREATED"
               /\ challenges[chal'[o].id].creatorId = chal'[o].in.userId)
              => chal'[o].pc = "update"
         /\ ChalStep(o, "StartChallenge", "update", "invalidate")
              => /\ challenges[chal[o].id].status = "CREATED"
                 /\ challenges'[chal[o].id].status = "ACTIVE"
                 /\ challenges'[chal[o].id].endTime =
                       challenges'[chal[o].id].startTime + challenges[chal[o].id].timeLimit]_vars

\* C24: a challenge reaches COMPLETED only from ACTIVE and only by the
\* creator's EndChallenge; an EndChallenge on a CREATED challenge or by a
\* non-creator is rejected and leaves the challenge unchanged.
C24_EndOnlyFromActive ==
    [][/\ \A c \in ChallengeIds :
            (challenges'[c].status = "COMPLETED" /\ challenges[c].status # "COMPLETED")
              => /\ challenges[c].status = "ACTIVE"
                 /\ \E o \in ChalIds :
                       /\ ChalStep(o, "EndChallenge", "update", "invalidate")
                       /\ chal[o].id = c /\ chal[o].in.userId = challenges[c].creatorId
       /\ \A o \in ChalIds :
            (ChalArrives(o, "EndChallenge")
              /\ challenges[chal'[o].id].exists
              /\ (challenges[chal'[o].id].status = "CREATED"
                    \/ challenges[chal'[o].id].creatorId # chal'[o].in.userId))
              => chal'[o].pc = "done" /\ ~chal'[o].ok /\ challenges' = challenges]_vars

\* C25: participantIds of every challenge holds the creator and no user id
\* twice, and a JoinChallenge by a user already in it answers success and
\* leaves the list unchanged.
C25_ParticipantsAreASet ==
    /\ [](\A c \in ChallengeIds :
             challenges[c].exists =>
                /\ Has(challenges[c].participantIds, challenges[c].creatorId)
                /\ Distinct(challenges[c].participantIds))
    /\ [][\A o \in ChalIds :
             (ChalArrives(o, "JoinChallenge")
               /\ challenges[chal'[o].id].exists
               /\ ~challenges[chal'[o].id].isPrivate
               /\ Has(challenges[chal'[o].id].participantIds, chal'[o].in.userId))
              => chal'[o].ok /\ chal'[o].pc = "invalidate" /\ challenges' = challenges]_vars

\* C29: when a successful JoinChallenge, StartChallenge or EndChallenge
\* returns, the cache holds no details entry of that challenge, so a following
\* GetChallengeDetails is not answered from an entry written before it.
C29_DetailsInvalidated ==
    [][\A o \in ChalIds :
         (chal[o].pc = "invalidate" /\ chal'[o].pc = "done" /\ chal[o].ok
           /\ chal[o].in.op \in {"JoinChallenge", "StartChallenge", "EndChallenge"})
          => ~cache'[<<"challenge_details", chal[o].id>>].hit]_vars

\* a country code in upper case
IsUpper(c) == c \in {"IN", "US"}

\* C26: the country of every Submission and ProblemDone and the entity of
\* every row of the leaderboard index are uppercase.
C26_EntitiesUppercase ==
    /\ \A sub \in submissions : IsUpper(sub.country)
    /\ \A d \in problemsDone : IsUpper(d.country)
    /\ \A u \in UserIds : lb[u].present => IsUpper(lb[u].entity)

\* the step completes a successful CreateProblem, UpdateProblem or DeleteProblem
CatalogCommit ==
    \/ \E m \in MutIds : mut[m].pc = "insert" /\ mut'[m].pc = "done"
    \/ \E m \in MutIds : /\ mut[m].pc = "write" /\ mut'[m].pc = "done"
                          /\ mut[m].in.op = "UpdateProblem"
    \/ \E id \in DocIds : ~problems[id].deleted /\ problems'[id].deleted

\* C27: when a successful CreateProblem, UpdateProblem or DeleteProblem
\* completes, no cache entry whose key starts with problems_list: is left.
C27_ListCacheDeleted ==
    [][CatalogCommit =>
         \A k \in DOMAIN cache : k[1] = "problems_list" => ~cache'[k].hit]_vars

\* cache key k holds submissions, statistics or this month's heatmap of user u
ActivityKey(k, u) ==
    \/ k[1] = "submissions" /\ k[3] = u
    \/ k[1] = "stats" /\ k[2] = u
    \/ k[1] = "heatmap" /\ k[2] = u

\* C28: when a submit-case run that recorded a Submission returns, no cache
\* entry of that user's submissions (with or without problemId filter),
\* statistics or current month's heatmap (asked by year and month or by the
\* zero default) is left.
C28_ActivityCachesInvalidated ==
    [][\A r \in AllReqIds :
         (req[r].pc = "flush" /\ req'[r].pc = "done" /\ WrittenBy(r) # {})
          => \A k \in DOMAIN cache :
                ActivityKey(k, req[r].userId)
                  /\ (k[1] = "submissions" => k[2] \in {"", req[r].problemId})
                  => ~cache'[k].hit]_vars

\* the row a full resync of the current ProblemDone set gives user u
IndexRow(u) == CHOOSE row \in Aggregate : row.id = u

\* C30: a durable-store fallback answers as an index freshly rebuilt from the
\* same ProblemDone set would: GetUserRankMongo gives the user's global rank
\* and the rank within the entity of the user's earliest ProblemDone, and
\* GetTopKEntityMongo gives the users of that entity with their full totals.
C30_FallbackMatchesIndex ==
    [][(query'.pc = "returned" /\ req' = req) =>
         /\ query'.op = "GetUserRankMongo" =>
               LET u == query'.in.userId
                   ranked == \E row \in Aggregate : row.id = u
               IN /\ query'.out.globalRank \in Positions(Aggregate, u)
                  /\ query'.out.entityRank \in
                        (IF ranked
                         THEN Positions({row \in Aggregate :
                                           row.primaryCountry = IndexRow(u).primaryCountry}, u)
                         ELSE {0})
         /\ query'.op = "GetTopKEntityMongo" =>
               query'.out = {row \in Aggregate : row.primaryCountry = query'.in.entity}]_vars

\* C31: the Submission write of the compile-error branch does not depend on the
\* RPC's context: once the goroutine of a submit-case request with a user has
\* ended, its FAILED Submission is written, although the handler had returned
\* (and its context was cancelled) before.
C31_AsyncWriteDetached ==
    \A r \in ReqIds :
        (req[r].pc = "done" /\ req[r].reply = "compileErr"
           /\ ~req[r].isRun /\ req[r].userId # "")
          => \E sub \in WrittenBy(r) : sub.status = "FAILED"

\* C32: on the success/fail path of a submit-case request with a user, a
\* response with success=true is returned only after the Submission is written.
C32_WrittenBeforeReply ==
    \A r \in ReqIds :
        (req[r].reply \in {"pass", "fail"} /\ ~req[r].isRun /\ req[r].userId # ""
           /\ req[r].resp.returned /\ req[r].resp.success)
          => WrittenBy(r) # {}

\* C33: once PushSubmissionData has returned, with or without an error, the
\* invocation's Submission has isFirst=true exactly when a ProblemDone refers
\* to it, and then with the same score.
C33_FirstIffProblemDone ==
    \A r \in ReqIds :
        req[r].pc \in {"flush", "done"} =>
            /\ (\E sub \in WrittenBy(r) : sub.isFirst)
                  <=> (\E d \in problemsDone : d.submissionId = r)
            /\ \A sub \in WrittenBy(r), d \in problemsDone :
                  d.submissionId = r => d.score = sub.score

\* C34: once a ForceChangeUserEntityInSubmission and a full resync have both
\* finished (and no submission is in progress), a user whose ProblemDone rows
\* all carry the uppercased new entity is held by the leaderboard index under
\* that same entity.
C34_ForceAndResyncConverge ==
    LET u == query.in.userId
        rows == {d \in problemsDone : d.userId = u}
    IN  (/\ query.pc = "returned" /\ query.op = "ForceChangeUserEntityInSubmission"
         /\ sync.pc = "returned" /\ req[1].pc \in {"idle", "done"}
         /\ rows # {} /\ \A d \in rows : d.country = ToUpper(query.in.entity))
          => lb[u].present /\ lb[u].entity = ToUpper(query.in.entity)

\* C35: when a structural mutation of the problem committed while a
\* FullValidationByProblemID of it was between its basic-validation read and its
\* end, the problem is not validated once both have finished.
C35_MutationDuringValidation ==
    (val.pc = "done" /\ val.interfered /\ mut[1].pc = "done")
        => ~problems[val.problemId].validated

\* C36: with no resync running, when two first-success submissions of one user
\* on two distinct problems have both ended, the leaderboard index holds for
\* the user the sum of the two scores awarded.
C36_ConcurrentFirstsBothCounted ==
    (/\ \A r \in ReqIds : req[r].pc = "done" /\ req[r].isFirst /\ req[r].status = "SUCCESS"
     /\ req[1].userId = req[2].userId
     /\ req[1].problemId # req[2].problemId)
        => /\ lb[req[1].userId].present
           /\ lb[req[1].userId].score = req[1].score + req[2].score

\* C37: while problem p1 is as stored at the start (no mutation has arrived),
\* a returned GetProblem or GetProblemByIDSlug carries what its own
\* durable-store read returns, whether or not the other endpoint cached its
\* response under "problem:p1" before.
C37_EndpointsDoNotInterfere ==
    (/\ query.pc = "returned" /\ query.op \in {"GetProblem", "GetProblemByIDSlug"}
     /\ mut[1].pc = "idle")
        => query.out = ProblemView(query.op, query.in.problemId)

\* C38: once a GetProblem and a mutation of the same problem have both
\* returned, the cache holds under "problem:{id}" no GetProblem entry, or one
\* equal to the durable state the mutation left.
C38_NoStaleEntryAfterWrite ==
    LET entry == cache[<<"problem", "p1">>] IN
    (/\ query.pc = "returned" /\ query.op = "GetProblem"
     /\ mut[1].pc = "done" /\ mut[1].ok
     /\ entry.hit /\ "problem" \in DOMAIN entry.value)
        => entry.value = ProblemView("GetProblem", "p1")

\* C39: COMPLETED is terminal: no step changes the status, the isActive flag,
\* the startTime or the endTime of a challenge that is COMPLETED.
C39_CompletedIsTerminal ==
    [][\A c \in ChallengeIds :
          challenges[c].status = "COMPLETED" =>
              /\ challenges'[c].status = "COMPLETED"
              /\ challenges'[c].isActive = challenges[c].isActive
              /\ challenges'[c].startTime = challenges[c].startTime
              /\ challenges'[c].endTime = challenges[c].endTime]_vars

\* C40: an UpdateProblem that carries no title completes normally: the step
\* that commits its durable update also leaves no entry under "problem:{id}"
\* and ends with the success response.
C40_UpdateWithoutTitleCompletes ==
    [][(/\ mut[1].pc = "write" /\ mut'[1].pc = "done"
        /\ mut[1].in.op = "UpdateProblem" /\ mut[1].in.field # "title")
          => /\ mut'[1].ok
             /\ ~cache'[<<"problem", mut[1].in.problemId>>].hit]_vars

====
